---- MODULE Spec2Model ----
(***************************************************************************)
(* Import & re-aggregation pipeline of the restaurant analytics backend:   *)
(* ImportService.process_csv driven by the upload background task, the     *)
(* import-job rows it writes, the transactions ledger it upserts into, the *)
(* external cancel request and stale-job sweep, and the anomaly scan with  *)
(* its alert cooldown.                                                     *)
(*                                                                         *)
(* Every database call is one atomic step; the steps of different tasks    *)
(* interleave freely.  Local computation between two database calls is     *)
(* folded into the step of the call that follows it, except the per-row    *)
(* transform, which is a step of its own.                                  *)
(***************************************************************************)
EXTENDS Integers, Sequences, FiniteSets, TLC

(***************************************************************************)
(* Bounds of the model.                                                    *)
(***************************************************************************)
\* Longest file (in item rows) of the re-import and concurrency scenarios.
MaxRows == 3
\* batch_size of process_csv, scaled down from 500 so that a file of a few
\* rows spans several batches and ends with a partial one.
batch_size == 2
\* Last day the clock of the alert scenarios reaches.
MaxDay == 8

(***************************************************************************)
(* Program constants.                                                      *)
(***************************************************************************)
max_consecutive_failures == 5
COOLDOWN_DAYS == 7

Workers == {"w1", "w2"}
ScanJobs == {"s1"}
Tenants == {"t1", "t2"}
Receipts == {1, 2}
Items == {"Latte", "Mocha"}

VARIABLES
    ledger,     \* table transactions: a set of transaction rows
    jobs,       \* table data_import_jobs: job id -> row (one job per upload task)
    task,       \* per upload task: the ImportService instance and the locals of process_csv
    scan,       \* per caller of run_anomaly_scan: the locals of the scan
    scanjobs,   \* table alert_scan_jobs: scan job id -> row
    alerts,     \* table alerts: a set of alert rows
    anomalies,  \* per tenant: the alerts the detectors attempt on the current ledger
    now,        \* the clock, in days
    hist,       \* history of each run, read by the properties only
    calc        \* arguments and result of the pure function a scenario applies

vars == <<ledger, jobs, task, scan, scanjobs, alerts, anomalies, now, hist, calc>>

(***************************************************************************)
(* Files.  A file is what pd.read_csv and parse_storehub_csv make of the   *)
(* uploaded bytes: unparsable, parsable without an Item column, or a       *)
(* sequence of item rows.  A row whose ok is FALSE makes                   *)
(* transform_storehub_row raise.  Every row carries a receipt timestamp:   *)
(* what the unique index does with a NULL timestamp depends on the table   *)
(* definition, which is not in the tree.                                   *)
(***************************************************************************)
Row(r, i, good) ==
    [receipt_number |-> r, item_name |-> i, receipt_timestamp |-> 1, ok |-> good]

RowUniverse == {Row(r, i, g) : r \in Receipts, i \in Items, g \in BOOLEAN}

SeqsUpTo(S, n) == UNION {[1..k -> S] : k \in 0..n}

CsvFile(rows) == [kind |-> "ok", rows |-> rows]
UnparsableFile == [kind |-> "unparsable", rows |-> <<>>]
NoItemColumnFile == [kind |-> "no_item_column", rows |-> <<>>]

(***************************************************************************)
(* Job tracker.                                                            *)
(***************************************************************************)
NoJob == [status |-> "none", tenant_id |-> "t1", processed_rows |-> 0, inserted_rows |-> 0]

\* create_import_job: insert a row with status pending.
CreateImportJob(jb, j, tenant) ==
    [jb EXCEPT ![j] = [status |-> "pending", tenant_id |-> tenant,
                       processed_rows |-> 0, inserted_rows |-> 0]]

\* update_job_status: an unconditional UPDATE ... WHERE id = job_id of the
\* status and of the fields given (upd maps the names of the given fields to
\* their values); the current status of the row is not read.
UpdateJobStatus(jb, j, status, upd) ==
    [jb EXCEPT ![j] = [f \in DOMAIN @ |->
        IF f = "status" THEN status
        ELSE IF f \in DOMAIN upd THEN upd[f]
        ELSE @[f]]]

Progress(processed, inserted) ==
    [processed_rows |-> processed, inserted_rows |-> inserted]

NoFields == [x \in {} |-> 0]

\* cleanup_stale_import_jobs: force-fail the jobs in S, which are processing
\* jobs older than the timeout.  Elapsed time is not modelled: any processing
\* job may be older than the timeout.
ProcessingJobs(jb) == {j \in Workers : jb[j].status = "processing"}

SweepStale(jb, S) ==
    [j \in Workers |-> IF j \in S THEN [jb[j] EXCEPT !.status = "failed"] ELSE jb[j]]

(***************************************************************************)
(* Storage upsert.                                                         *)
(***************************************************************************)
\* The conflict key of the source-row-ordinal revision of the constraint.
ConflictKeyBySourceRow(t) ==
    <<t.tenant_id, t.receipt_number, t.item_name, t.source_row_number>>

\* on_conflict="tenant_id,receipt_number,item_name,receipt_timestamp"
ConflictKey(t) ==
    <<t.tenant_id, t.receipt_number, t.item_name, t.receipt_timestamp>>

\* A conflict check that only sees the rows of the same import batch.
ConflictsWithinBatch(led, t) ==
    \E r \in led : /\ ConflictKey(r) = ConflictKey(t)
                   /\ r.import_batch_id = t.import_batch_id

Conflicts(led, t) == \E r \in led : ConflictKey(r) = ConflictKey(t)

\* upsert without ignore_duplicates: INSERT ... ON CONFLICT DO UPDATE, the
\* offered row replaces the stored row of the same key.
RECURSIVE UpsertOverwrites(_, _)
UpsertOverwrites(led, ts) ==
    IF ts = <<>> THEN [ledger |-> led, inserted |-> 0]
    ELSE LET t == Head(ts)
             hit == Conflicts(led, t)
             kept == {r \in led : ConflictKey(r) # ConflictKey(t)}
             rest == UpsertOverwrites(kept \cup {t}, Tail(ts))
         IN  [ledger |-> rest.ledger,
              inserted |-> rest.inserted + (IF hit THEN 0 ELSE 1)]

\* upsert(rows, on_conflict=..., ignore_duplicates=True): INSERT ... ON CONFLICT
\* DO NOTHING, row by row in the order given; returns the rows inserted.
RECURSIVE Upsert(_, _)
Upsert(led, ts) ==
    IF ts = <<>> THEN [ledger |-> led, inserted |-> 0]
    ELSE LET t == Head(ts)
             hit == Conflicts(led, t)
             rest == Upsert(IF hit THEN led ELSE led \cup {t}, Tail(ts))
         IN  [ledger |-> rest.ledger,
              inserted |-> rest.inserted + (IF hit THEN 0 ELSE 1)]

\* transform_storehub_row plus the four fields process_csv adds.
Transform(w, row, idx) ==
    [tenant_id |-> task[w].tenant_id,
     receipt_number |-> row.receipt_number,
     item_name |-> row.item_name,
     receipt_timestamp |-> row.receipt_timestamp,
     import_batch_id |-> w,
     source_row_number |-> idx + 1]

(***************************************************************************)
(* The upload task.                                                        *)
(***************************************************************************)
IdleTask(tenant, f) ==
    [pc |-> "idle", tenant_id |-> tenant, file |-> f, idx |-> 0,
     transactions |-> <<>>, inserted |-> 0, duplicate_skipped |-> 0,
     errors |-> <<>>, consecutive_failures |-> 0, retry |-> 0,
     batch_had_success |-> FALSE, result |-> "none", alerts_created |-> 0,
     calls |-> <<>>, failed_steps |-> {}]

NoHist == [cancel_in_loop |-> FALSE, upserts_after_cancel |-> 0, batch_log |-> <<>>,
           last_upsert_cancelled |-> FALSE]

IdleScan == [pc |-> "idle", tenant_id |-> "t1", todo |-> <<>>, created |-> {},
             total_alerts |-> 0, began |-> 0, ended |-> 0, after |-> {}]

\* The ingest loop of task t is running and a batch boundary, with its
\* cancellation check, is still ahead: a full batch is in flight or just
\* done, or the rows left fill one more batch.
OkRowsLeft(t) ==
    Cardinality({i \in (t.idx + 1)..Len(t.file.rows) : t.file.rows[i].ok})

InLoopBeforeCheck(t) ==
    \/ t.pc \in {"batch", "retry", "progress", "cancel_check"}
    \/ t.pc = "loop" /\ Len(t.transactions) + OkRowsLeft(t) >= batch_size

\* One more batch upsert call is issued by w.
NoteBatchUpsert(w) ==
    [hist EXCEPT ![w].upserts_after_cancel =
        IF hist[w].cancel_in_loop THEN @ + 1 ELSE @]

\* upload_csv (after validation): sweep stale jobs, create the job, schedule
\* process_import_task.
Upload(w) ==
    /\ task[w].pc = "idle"
    /\ \E S \in SUBSET ProcessingJobs(jobs) :
         jobs' = CreateImportJob(SweepStale(jobs, S), w, task[w].tenant_id)
    /\ task' = [task EXCEPT ![w].pc = "queued"]
    /\ UNCHANGED <<ledger, scan, scanjobs, alerts, anomalies, now, hist, calc>>

\* process_csv line 93: pd.read_csv raises; nothing has been written yet.
ReadCsvRaises(w) ==
    /\ task[w].pc = "queued"
    /\ task[w].file.kind = "unparsable"
    /\ task' = [task EXCEPT ![w].pc = "except", ![w].result = "raised"]
    /\ UNCHANGED <<ledger, jobs, scan, scanjobs, alerts, anomalies, now, hist, calc>>

\* process_csv lines 93-106 when the file has no Item column: the job is set
\* to processing, then parse_storehub_csv raises ValueError.
ItemColumnMissing(w) ==
    /\ task[w].pc = "queued"
    /\ task[w].file.kind = "no_item_column"
    /\ jobs' = UpdateJobStatus(jobs, w, "processing", NoFields)
    /\ task' = [task EXCEPT ![w].pc = "except", ![w].result = "raised"]
    /\ UNCHANGED <<ledger, scan, scanjobs, alerts, anomalies, now, hist, calc>>

\* process_csv lines 93-133: the job is set to processing, the receipt tables
\* and the item rows are computed.
BeginProcessing(w) ==
    /\ task[w].pc = "queued"
    /\ task[w].file.kind = "ok"
    /\ jobs' = UpdateJobStatus(jobs, w, "processing", NoFields)
    /\ task' = [task EXCEPT ![w].pc = "loop"]
    /\ UNCHANGED <<ledger, scan, scanjobs, alerts, anomalies, now, hist, calc>>

\* Lines 136-147: one row is transformed and appended to the pending batch.
TransformRow(w) ==
    /\ task[w].pc = "loop"
    /\ task[w].idx < Len(task[w].file.rows)
    /\ LET row == task[w].file.rows[task[w].idx + 1]
           batch == Append(task[w].transactions, Transform(w, row, task[w].idx))
       IN  /\ row.ok
           /\ task' = [task EXCEPT ![w].idx = @ + 1,
                                   ![w].transactions = batch,
                                   ![w].pc = IF Len(batch) >= batch_size
                                             THEN "batch" ELSE "loop"]
    /\ UNCHANGED <<ledger, jobs, scan, scanjobs, alerts, anomalies, now, hist, calc>>

\* Lines 138, 241-242: the transform raises; the row is recorded as an error.
TransformRowRaises(w) ==
    /\ task[w].pc = "loop"
    /\ task[w].idx < Len(task[w].file.rows)
    /\ ~task[w].file.rows[task[w].idx + 1].ok
    /\ task' = [task EXCEPT ![w].idx = @ + 1,
                            ![w].errors = Append(@, task[w].idx + 1)]
    /\ UNCHANGED <<ledger, jobs, scan, scanjobs, alerts, anomalies, now, hist, calc>>

\* The for loop ends (line 136 exhausts the rows).
LoopEnd(w) ==
    /\ task[w].pc = "loop"
    /\ task[w].idx = Len(task[w].file.rows)
    /\ task' = [task EXCEPT ![w].pc = IF task[w].transactions # <<>>
                                      THEN "remaining" ELSE "final"]
    /\ UNCHANGED <<ledger, jobs, scan, scanjobs, alerts, anomalies, now, hist, calc>>

\* A batch upsert whose empty result is taken for a failure of the call.
BatchUpsertZeroIsFailure(w) ==
    /\ task[w].pc = "batch"
    /\ LET res == Upsert(ledger, task[w].transactions)
           n == Len(task[w].transactions)
       IN  /\ ledger' = res.ledger
           /\ task' = IF res.inserted = 0
                      THEN [task EXCEPT ![w].consecutive_failures = @ + 1,
                                        ![w].batch_had_success = FALSE,
                                        ![w].retry = 1,
                                        ![w].pc = "retry"]
                      ELSE [task EXCEPT ![w].inserted = @ + res.inserted,
                                        ![w].duplicate_skipped = @ + (n - res.inserted),
                                        ![w].consecutive_failures = 0,
                                        ![w].transactions = <<>>,
                                        ![w].pc = "progress"]
           /\ hist' = [NoteBatchUpsert(w) EXCEPT ![w].batch_log = Append(@, -1)]
    /\ UNCHANGED <<jobs, scan, scanjobs, alerts, anomalies, now, calc>>

\* Lines 150-165, 194: the batch upsert succeeds.
BatchUpsert(w) ==
    /\ task[w].pc = "batch"
    /\ LET res == Upsert(ledger, task[w].transactions)
           n == Len(task[w].transactions)
       IN  /\ ledger' = res.ledger
           /\ task' = [task EXCEPT ![w].inserted = @ + res.inserted,
                                   ![w].duplicate_skipped = @ + (n - res.inserted),
                                   ![w].consecutive_failures = 0,
                                   ![w].transactions = <<>>,
                                   ![w].pc = "progress"]
           /\ hist' = [NoteBatchUpsert(w) EXCEPT ![w].batch_log = Append(@, -1)]
    /\ UNCHANGED <<jobs, scan, scanjobs, alerts, anomalies, now, calc>>

\* Lines 166-171: the batch upsert raises; the rows are retried one by one.
BatchUpsertFails(w) ==
    /\ task[w].pc = "batch"
    /\ task' = [task EXCEPT ![w].consecutive_failures = @ + 1,
                            ![w].batch_had_success = FALSE,
                            ![w].retry = 1,
                            ![w].pc = "retry"]
    /\ hist' = [NoteBatchUpsert(w) EXCEPT ![w].batch_log = Append(@, 0)]
    /\ UNCHANGED <<ledger, jobs, scan, scanjobs, alerts, anomalies, now, calc>>

\* Lines 190-197 once the last row of the batch has been retried: the failure
\* counter is reset if a row was inserted, the batch is dropped, and the
\* abort threshold is tested.
FailuresNeverReset(failures, had_success) == failures

FailuresAfterRetry(failures, had_success) ==
    IF had_success THEN 0 ELSE failures

AfterRetry(t, had_success) ==
    IF t.retry < Len(t.transactions)
    THEN [t EXCEPT !.retry = @ + 1, !.batch_had_success = had_success]
    ELSE LET f == FailuresAfterRetry(t.consecutive_failures, had_success)
         IN  [t EXCEPT !.retry = 0,
                       !.batch_had_success = had_success,
                       !.consecutive_failures = f,
                       !.transactions = <<>>,
                       !.pc = IF f >= max_consecutive_failures
                              THEN "abort" ELSE "progress"]

\* Lines 172-183: one row of the failed batch is upserted on its own.
RowUpsert(w) ==
    /\ task[w].pc = "retry"
    /\ LET t == task[w].transactions[task[w].retry]
           res == Upsert(ledger, <<t>>)
           new == res.inserted = 1
       IN  /\ ledger' = res.ledger
           /\ task' = [task EXCEPT ![w] = AfterRetry(
                  [@ EXCEPT !.inserted = @ + res.inserted,
                            !.duplicate_skipped = @ + (1 - res.inserted)],
                  task[w].batch_had_success \/ new)]
           /\ hist' = [hist EXCEPT ![w].batch_log =
                  [@ EXCEPT ![Len(@)] = @ + res.inserted]]
    /\ UNCHANGED <<jobs, scan, scanjobs, alerts, anomalies, now, calc>>

\* A retry loop that drops a failing row without recording it.
RowUpsertFailsUnrecorded(w) ==
    /\ task[w].pc = "retry"
    /\ task' = [task EXCEPT ![w] = AfterRetry(@, task[w].batch_had_success)]
    /\ UNCHANGED <<ledger, jobs, scan, scanjobs, alerts, anomalies, now, hist, calc>>

\* A retry loop that gives up on the batch at the first row that fails.
RowUpsertFailsEndsBatch(w) ==
    /\ task[w].pc = "retry"
    /\ LET t == task[w].transactions[task[w].retry]
       IN  task' = [task EXCEPT ![w] = AfterRetry(
               [@ EXCEPT !.errors = Append(@, t.source_row_number),
                         !.retry = Len(task[w].transactions)],
               task[w].batch_had_success)]
    /\ UNCHANGED <<ledger, jobs, scan, scanjobs, alerts, anomalies, now, hist, calc>>

\* Lines 184-188: the upsert of the single row raises too.
RowUpsertFails(w) ==
    /\ task[w].pc = "retry"
    /\ LET t == task[w].transactions[task[w].retry]
       IN  task' = [task EXCEPT ![w] = AfterRetry(
               [@ EXCEPT !.errors = Append(@, t.source_row_number)],
               task[w].batch_had_success)]
    /\ UNCHANGED <<ledger, jobs, scan, scanjobs, alerts, anomalies, now, hist, calc>>

\* Lines 197-216: abort after too many consecutive failed batches.
AbortJob(w) ==
    /\ task[w].pc = "abort"
    /\ jobs' = UpdateJobStatus(jobs, w, "failed",
                               Progress(task[w].idx, task[w].inserted))
    /\ task' = [task EXCEPT ![w].result = "aborted", ![w].pc = "menu"]
    /\ UNCHANGED <<ledger, scan, scanjobs, alerts, anomalies, now, hist, calc>>

\* A progress update that reports the size of the batch just done instead of
\* the running count of rows.
UpdateProgressOfBatch(w) ==
    /\ task[w].pc = "progress"
    /\ jobs' = UpdateJobStatus(jobs, w, "processing",
                               Progress(batch_size, task[w].inserted))
    /\ task' = [task EXCEPT ![w].pc = "cancel_check"]
    /\ UNCHANGED <<ledger, scan, scanjobs, alerts, anomalies, now, hist, calc>>

\* Lines 218-225: the progress update after each full batch.
UpdateProgress(w) ==
    /\ task[w].pc = "progress"
    /\ jobs' = UpdateJobStatus(jobs, w, "processing",
                               Progress(task[w].idx, task[w].inserted))
    /\ task' = [task EXCEPT ![w].pc = "cancel_check"]
    /\ UNCHANGED <<ledger, scan, scanjobs, alerts, anomalies, now, hist, calc>>

\* Lines 227-240 with is_job_cancelled (76-84): re-read the status.
CheckCancelled(w) ==
    /\ task[w].pc = "cancel_check"
    /\ task' = IF jobs[w].status = "cancelled"
               THEN [task EXCEPT ![w].result = "cancelled", ![w].pc = "menu"]
               ELSE [task EXCEPT ![w].pc = "loop"]
    /\ UNCHANGED <<ledger, jobs, scan, scanjobs, alerts, anomalies, now, hist, calc>>

\* Lines 245-256: the upsert of the last, partial batch succeeds.
RemainingUpsert(w) ==
    /\ task[w].pc = "remaining"
    /\ LET res == Upsert(ledger, task[w].transactions)
           n == Len(task[w].transactions)
       IN  /\ ledger' = res.ledger
           /\ task' = [task EXCEPT ![w].inserted = @ + res.inserted,
                                   ![w].duplicate_skipped = @ + (n - res.inserted),
                                   ![w].pc = "final"]
    /\ hist' = [NoteBatchUpsert(w) EXCEPT
                    ![w].last_upsert_cancelled = (jobs[w].status = "cancelled")]
    /\ UNCHANGED <<jobs, scan, scanjobs, alerts, anomalies, now, calc>>

\* A failure of the last batch that counts as one more failed batch.
RemainingUpsertFailsCounts(w) ==
    /\ task[w].pc = "remaining"
    /\ task' = [task EXCEPT ![w].retry = 1, ![w].pc = "retry_remaining",
                            ![w].consecutive_failures = @ + 1]
    /\ hist' = NoteBatchUpsert(w)
    /\ UNCHANGED <<ledger, jobs, scan, scanjobs, alerts, anomalies, now, calc>>

\* Line 257: the upsert of the last batch raises.
RemainingUpsertFails(w) ==
    /\ task[w].pc = "remaining"
    /\ task' = [task EXCEPT ![w].retry = 1, ![w].pc = "retry_remaining"]
    /\ hist' = NoteBatchUpsert(w)
    /\ UNCHANGED <<ledger, jobs, scan, scanjobs, alerts, anomalies, now, calc>>

AfterRemainingRetry(t) ==
    IF t.retry < Len(t.transactions)
    THEN [t EXCEPT !.retry = @ + 1]
    ELSE [t EXCEPT !.retry = 0, !.pc = "final"]

\* Lines 258-268: one row of the last batch is upserted on its own.
RemainingRowUpsert(w) ==
    /\ task[w].pc = "retry_remaining"
    /\ LET t == task[w].transactions[task[w].retry]
           res == Upsert(ledger, <<t>>)
       IN  /\ ledger' = res.ledger
           /\ task' = [task EXCEPT ![w] = AfterRemainingRetry(
                  [@ EXCEPT !.inserted = @ + res.inserted,
                            !.duplicate_skipped = @ + (1 - res.inserted)])]
    /\ UNCHANGED <<jobs, scan, scanjobs, alerts, anomalies, now, hist, calc>>

\* Lines 269-273.
RemainingRowUpsertFails(w) ==
    /\ task[w].pc = "retry_remaining"
    /\ LET t == task[w].transactions[task[w].retry]
       IN  task' = [task EXCEPT ![w] = AfterRemainingRetry(
               [@ EXCEPT !.errors = Append(@, t.source_row_number)])]
    /\ UNCHANGED <<ledger, jobs, scan, scanjobs, alerts, anomalies, now, hist, calc>>

\* A final update that goes straight to the summary refresh.
FinalUpdateSkipsScan(w) ==
    /\ task[w].pc = "final"
    /\ jobs' = UpdateJobStatus(jobs, w, "completed",
                               Progress(Len(task[w].file.rows), task[w].inserted))
    /\ task' = IF task[w].inserted > 0
               THEN [task EXCEPT ![w].pc = "summaries"]
               ELSE [task EXCEPT ![w].result = "returned", ![w].pc = "menu"]
    /\ UNCHANGED <<ledger, scan, scanjobs, alerts, anomalies, now, hist, calc>>

\* Lines 275-301: the final update; the anomaly scan is skipped, and with it
\* the summary refresh, when nothing was inserted.
FinalUpdate(w) ==
    /\ task[w].pc = "final"
    /\ jobs' = UpdateJobStatus(jobs, w, "completed",
                               Progress(Len(task[w].file.rows), task[w].inserted))
    /\ task' = IF task[w].inserted > 0
               THEN [task EXCEPT ![w].pc = "anomaly"]
               ELSE [task EXCEPT ![w].result = "returned", ![w].pc = "menu"]
    /\ UNCHANGED <<ledger, scan, scanjobs, alerts, anomalies, now, hist, calc>>

(***************************************************************************)
(* The anomaly scan.  run_anomaly_scan reads the settings and the ledger,  *)
(* and calls create_alert for each anomaly it detects; create_alert is the *)
(* cooldown query followed by the insert, two database calls.  The         *)
(* detectors' findings on a given ledger are the sequence anomalies[t];    *)
(* the ledgers of the ingest scenarios hold one day of data, on which the  *)
(* detectors find nothing (no prior window, no prior month).               *)
(***************************************************************************)
Scanners == Workers \cup ScanJobs

\* The fingerprint f-strings: type, subject and period joined by ':'.
Fingerprint(a) == <<a.type, a.subject, a.period>>

\* A cooldown query that compares with gt instead of gte.
InCooldownStrict(al, tenant, fp, today) ==
    \E x \in al : /\ x.tenant_id = tenant
                  /\ x.fingerprint = fp
                  /\ x.created_at > today - COOLDOWN_DAYS

\* check_cooldown: is there an alert of the tenant with this fingerprint
\* whose created_at >= utcnow() - COOLDOWN_DAYS.
InCooldown(al, tenant, fp, today) ==
    \E x \in al : /\ x.tenant_id = tenant
                  /\ x.fingerprint = fp
                  /\ x.created_at >= today - COOLDOWN_DAYS

Ended(p) == scan[p].pc \in {"returned", "raised"}

BeginScan(p, tenant) ==
    [IdleScan EXCEPT !.pc = "detect", !.tenant_id = tenant, !.began = now,
                     !.after = {q \in Scanners : Ended(q)}]

\* The scan goes on to the next detected anomaly, or returns.
NextAttempt(s, today) ==
    IF Len(s.todo) > 1
    THEN [s EXCEPT !.todo = Tail(@), !.pc = "check"]
    ELSE [s EXCEPT !.todo = <<>>, !.pc = "returned", !.ended = today]

\* run_anomaly_scan up to the first create_alert: settings and detectors.
ScanDetect(p) ==
    /\ scan[p].pc = "detect"
    /\ LET found == anomalies[scan[p].tenant_id]
       IN  scan' = [scan EXCEPT ![p] =
               IF found = <<>>
               THEN [@ EXCEPT !.pc = "returned", !.ended = now]
               ELSE [@ EXCEPT !.pc = "check", !.todo = found]]
    /\ UNCHANGED <<ledger, jobs, task, scanjobs, alerts, anomalies, now, hist, calc>>

\* create_alert lines 72-74: the cooldown query.
CheckCooldown(p) ==
    /\ scan[p].pc = "check"
    /\ scan' = [scan EXCEPT ![p] =
           IF InCooldown(alerts, @.tenant_id, Fingerprint(Head(@.todo)), now)
           THEN NextAttempt(@, now)
           ELSE [@ EXCEPT !.pc = "insert"]]
    /\ UNCHANGED <<ledger, jobs, task, scanjobs, alerts, anomalies, now, hist, calc>>

\* create_alert lines 76-88: the insert; created_at defaults to the clock.
InsertAlert(p) ==
    /\ scan[p].pc = "insert"
    /\ LET a == Head(scan[p].todo)
       IN  /\ alerts' = alerts \cup
                 {[id |-> Cardinality(alerts) + 1,
                   tenant_id |-> scan[p].tenant_id,
                   type |-> a.type,
                   fingerprint |-> Fingerprint(a),
                   created_at |-> now]}
           /\ scan' = [scan EXCEPT ![p] = NextAttempt(
                  [@ EXCEPT !.created = @ \cup {Fingerprint(a)},
                            !.total_alerts = @ + 1], now)]
    /\ UNCHANGED <<ledger, jobs, task, scanjobs, anomalies, now, hist, calc>>

\* A database call of the scan raises.
ScanRaises(p) ==
    /\ scan[p].pc \in {"detect", "check", "insert"}
    /\ scan' = [scan EXCEPT ![p].pc = "raised", ![p].ended = now]
    /\ UNCHANGED <<ledger, jobs, task, scanjobs, alerts, anomalies, now, hist, calc>>

(***************************************************************************)
(* The downstream steps of the upload task.                                *)
(***************************************************************************)
\* process_csv lines 293-296: call run_anomaly_scan.
RunAnomalyScan(w) ==
    /\ task[w].pc = "anomaly"
    /\ scan[w].pc = "idle"
    /\ scan' = [scan EXCEPT ![w] = BeginScan(w, task[w].tenant_id)]
    /\ task' = [task EXCEPT ![w].calls = Append(@, "anomaly")]
    /\ UNCHANGED <<ledger, jobs, scanjobs, alerts, anomalies, now, hist, calc>>

\* Lines 296-297: the scan returns its count.
AnomalyScanReturns(w) ==
    /\ task[w].pc = "anomaly"
    /\ scan[w].pc = "returned"
    /\ task' = [task EXCEPT ![w].alerts_created = scan[w].total_alerts,
                            ![w].pc = "summaries"]
    /\ UNCHANGED <<ledger, jobs, scan, scanjobs, alerts, anomalies, now, hist, calc>>

\* The scan's exception leaves process_csv and reaches the caller's handler.
AnomalyScanPropagates(w) ==
    /\ task[w].pc = "anomaly"
    /\ scan[w].pc = "raised"
    /\ task' = [task EXCEPT ![w].failed_steps = @ \cup {"anomaly"},
                            ![w].result = "raised",
                            ![w].pc = "except"]
    /\ UNCHANGED <<ledger, jobs, scan, scanjobs, alerts, anomalies, now, hist, calc>>

\* Lines 298-299: the scan raised; the exception is caught and logged.
AnomalyScanCaught(w) ==
    /\ task[w].pc = "anomaly"
    /\ scan[w].pc = "raised"
    /\ task' = [task EXCEPT ![w].failed_steps = @ \cup {"anomaly"},
                            ![w].pc = "summaries"]
    /\ UNCHANGED <<ledger, jobs, scan, scanjobs, alerts, anomalies, now, hist, calc>>

\* Lines 303-325 with refresh_all_summaries (347-366): the RPC, then return.
AfterSummaries(t) ==
    [t EXCEPT !.calls = Append(@, "summaries"), !.result = "returned", !.pc = "menu"]

RefreshSummaries(w) ==
    /\ task[w].pc = "summaries"
    /\ task' = [task EXCEPT ![w] = AfterSummaries(@)]
    /\ UNCHANGED <<ledger, jobs, scan, scanjobs, alerts, anomalies, now, hist, calc>>

\* The RPC raises; refresh_all_summaries catches it and returns None.
RefreshSummariesFails(w) ==
    /\ task[w].pc = "summaries"
    /\ task' = [task EXCEPT ![w] =
           AfterSummaries([@ EXCEPT !.failed_steps = @ \cup {"summaries"}])]
    /\ UNCHANGED <<ledger, jobs, scan, scanjobs, alerts, anomalies, now, hist, calc>>

\* process_import_task lines 139-141 with regenerate_menu_items (327-345):
\* called whenever process_csv has returned.
AfterMenuItems(t) ==
    [t EXCEPT !.calls = Append(@, "menu"), !.pc = "done"]

RegenerateMenuItems(w) ==
    /\ task[w].pc = "menu"
    /\ task' = [task EXCEPT ![w] = AfterMenuItems(@)]
    /\ UNCHANGED <<ledger, jobs, scan, scanjobs, alerts, anomalies, now, hist, calc>>

\* The RPC raises; regenerate_menu_items catches it and returns 0.
RegenerateMenuItemsFails(w) ==
    /\ task[w].pc = "menu"
    /\ task' = [task EXCEPT ![w] =
           AfterMenuItems([@ EXCEPT !.failed_steps = @ \cup {"menu"}])]
    /\ UNCHANGED <<ledger, jobs, scan, scanjobs, alerts, anomalies, now, hist, calc>>

\* process_import_task lines 142-146: process_csv raised.
ExceptionHandler(w) ==
    /\ task[w].pc = "except"
    /\ jobs' = UpdateJobStatus(jobs, w, "failed", NoFields)
    /\ task' = [task EXCEPT ![w].pc = "done"]
    /\ UNCHANGED <<ledger, scan, scanjobs, alerts, anomalies, now, hist, calc>>

(***************************************************************************)
(* External actors on the job rows.                                        *)
(***************************************************************************)
\* cancel_import_job: only pending or processing jobs can be cancelled; the
\* job is set to cancelled and its transactions are deleted, atomically.  The
\* SQL of the RPC is not in the tree; this is the effect the route documents.
CancelImportJob(j) ==
    /\ jobs[j].status \in {"pending", "processing"}
    /\ jobs' = [jobs EXCEPT ![j].status = "cancelled"]
    /\ ledger' = {t \in ledger : t.import_batch_id # j}
    /\ hist' = [hist EXCEPT ![j].cancel_in_loop = @ \/ InLoopBeforeCheck(task[j])]
    /\ UNCHANGED <<task, scan, scanjobs, alerts, anomalies, now, calc>>

\* cleanup_stale_jobs (endpoint, cron script, startup): the sweep alone.
CleanupStaleJobs ==
    /\ \E S \in SUBSET ProcessingJobs(jobs) :
         /\ S # {}
         /\ jobs' = SweepStale(jobs, S)
    /\ UNCHANGED <<ledger, task, scan, scanjobs, alerts, anomalies, now, hist, calc>>

(***************************************************************************)
(* The manually triggered scan job.                                        *)
(***************************************************************************)
NoScanJob == [status |-> "none", tenant_id |-> "t1", alerts_created |-> 0]

\* trigger_scan: insert the scan job, schedule _run_alert_scan_job.
TriggerScan(s, tenant) ==
    /\ scanjobs[s].status = "none"
    /\ scanjobs' = [scanjobs EXCEPT ![s] = [status |-> "pending",
                        tenant_id |-> tenant, alerts_created |-> 0]]
    /\ UNCHANGED <<ledger, jobs, task, scan, alerts, anomalies, now, hist, calc>>

\* _run_alert_scan_job lines 184-190.
StartScanJob(s) ==
    /\ scanjobs[s].status = "pending"
    /\ scanjobs' = [scanjobs EXCEPT ![s].status = "processing"]
    /\ scan' = [scan EXCEPT ![s] = BeginScan(s, scanjobs[s].tenant_id)]
    /\ UNCHANGED <<ledger, jobs, task, alerts, anomalies, now, hist, calc>>

\* Lines 193-198.
FinishScanJob(s) ==
    /\ scanjobs[s].status = "processing"
    /\ scan[s].pc = "returned"
    /\ scanjobs' = [scanjobs EXCEPT ![s].status = "completed",
                                    ![s].alerts_created = scan[s].total_alerts]
    /\ UNCHANGED <<ledger, jobs, task, scan, alerts, anomalies, now, hist, calc>>

\* Lines 202-207.
FailScanJob(s) ==
    /\ scanjobs[s].status = "processing"
    /\ scan[s].pc = "raised"
    /\ scanjobs' = [scanjobs EXCEPT ![s].status = "failed"]
    /\ UNCHANGED <<ledger, jobs, task, scan, alerts, anomalies, now, hist, calc>>

\* A day passes.
Tick ==
    /\ now < MaxDay
    /\ now' = now + 1
    /\ UNCHANGED <<ledger, jobs, task, scan, scanjobs, alerts, anomalies, hist, calc>>

(***************************************************************************)
(* Scenario 1 (Spec): two uploads for one tenant run concurrently on a     *)
(* reliable storage layer, with cancel requests and stale-job sweeps.      *)
(***************************************************************************)
\* No pure function is being applied.
NoCalc == [op |-> "none"]

EmptyTables ==
    /\ ledger = {}
    /\ jobs = [w \in Workers |-> NoJob]
    /\ scan = [p \in Scanners |-> IdleScan]
    /\ scanjobs = [s \in ScanJobs |-> NoScanJob]
    /\ alerts = {}
    /\ now = 0
    /\ hist = [w \in Workers |-> NoHist]
    /\ calc = NoCalc

NoAnomalies == [t \in Tenants |-> <<>>]

ConcurrentRows == {Row(r, "Latte", TRUE) : r \in Receipts}

ConcurrentFiles ==
    {CsvFile(rows) : rows \in SeqsUpTo(ConcurrentRows, MaxRows)}
        \cup {UnparsableFile, NoItemColumnFile}

\* The second upload: a file that overlaps the first one's.
OverlappingFiles ==
    {CsvFile(<<Row(1, "Latte", TRUE)>>),
     CsvFile(<<Row(2, "Latte", TRUE), Row(1, "Latte", TRUE)>>)}

Init ==
    /\ EmptyTables
    /\ anomalies = NoAnomalies
    /\ \E f1 \in ConcurrentFiles, f2 \in OverlappingFiles :
         task = [w \in Workers |-> IdleTask("t1", IF w = "w1" THEN f1 ELSE f2)]

Ingest(w) ==
    \/ Upload(w)
    \/ ReadCsvRaises(w)
    \/ ItemColumnMissing(w)
    \/ BeginProcessing(w)
    \/ TransformRow(w)
    \/ LoopEnd(w)
    \/ BatchUpsert(w)
    \/ UpdateProgress(w)
    \/ CheckCancelled(w)
    \/ RemainingUpsert(w)
    \/ FinalUpdate(w)
    \/ ExceptionHandler(w)

Downstream(w) ==
    \/ RunAnomalyScan(w)
    \/ ScanDetect(w)
    \/ AnomalyScanReturns(w)
    \/ RefreshSummaries(w)
    \/ RegenerateMenuItems(w)

Next ==
    \/ \E w \in Workers : Ingest(w) \/ Downstream(w) \/ CancelImportJob(w)
    \/ CleanupStaleJobs

Spec == Init /\ [][Next]_vars

Terminal == {"completed", "failed", "cancelled"}

\* C2: in every reachable state of the ledger, under any interleaving of
\* concurrent ingests of overlapping files for one tenant, no two rows share
\* (tenant id, receipt number, item name, receipt timestamp).
LedgerKeyUnique ==
    \A a \in ledger, b \in ledger :
        (/\ a.tenant_id = b.tenant_id
         /\ a.receipt_number = b.receipt_number
         /\ a.item_name = b.item_name
         /\ a.receipt_timestamp = b.receipt_timestamp) => a = b

\* Both uploads have inserted rows and each has skipped a row as a duplicate.
LedgerKeyContended ==
    /\ \E a \in ledger, b \in ledger :
         a.import_batch_id = "w1" /\ b.import_batch_id = "w2"
    /\ \A w \in Workers :
         task[w].duplicate_skipped > 0 /\ task[w].pc \notin {"idle", "done"}

\* C3: a cancel request that arrives while the ingest loop is running (a
\* batch in flight, or a batch boundary still ahead) is followed by at most
\* one more batch upsert, and the job ends cancelled.
CancelStopsTheLoop ==
    \A w \in Workers :
        hist[w].cancel_in_loop =>
            /\ hist[w].upserts_after_cancel <= 1
            /\ task[w].pc = "done" => jobs[w].status = "cancelled"

\* C4: once a job is completed, failed or cancelled, no later write changes
\* its status.
TerminalStatusIsFinal ==
    [][\A j \in Workers :
         jobs[j].status \in Terminal => jobs'[j].status = jobs[j].status]_vars

\* C5: every status change made by the upload task is pending->processing or
\* processing->completed/failed/cancelled.  The upload task never writes
\* cancelled, so a change to cancelled is the external cancel request's, and
\* none->pending is the creation of the row; the changes out of a terminal
\* status are those of TerminalStatusIsFinal and are left out here.
LegalTransitions ==
    {<<"pending", "processing">>, <<"processing", "completed">>,
     <<"processing", "failed">>, <<"processing", "cancelled">>}

OnlyLegalTransitions ==
    [][\A j \in Workers :
         (/\ jobs'[j].status # jobs[j].status
          /\ jobs[j].status \in {"pending", "processing"}
          /\ jobs'[j].status # "cancelled")
         => <<jobs[j].status, jobs'[j].status>> \in LegalTransitions]_vars

(***************************************************************************)
(* Scenario 2 (SpecReimport): one file is uploaded, and uploaded again     *)
(* when the first ingest is over, against an empty ledger and a storage    *)
(* layer that never fails.                                                 *)
(***************************************************************************)
ReimportFiles == {CsvFile(rows) : rows \in SeqsUpTo(RowUniverse, MaxRows)}

InitReimport ==
    /\ EmptyTables
    /\ anomalies = NoAnomalies
    /\ \E f \in ReimportFiles, tenant \in Tenants :
         task = [w \in Workers |->
                    IdleTask(IF w = "w1" THEN "t1" ELSE tenant, f)]

NextReimport ==
    \/ Upload("w1")
    \/ Upload("w2") /\ task["w1"].pc = "done"
    \/ \E w \in Workers :
         \/ BeginProcessing(w)
         \/ TransformRow(w)
         \/ TransformRowRaises(w)
         \/ LoopEnd(w)
         \/ BatchUpsert(w)
         \/ UpdateProgress(w)
         \/ CheckCancelled(w)
         \/ RemainingUpsert(w)
         \/ FinalUpdate(w)
         \/ Downstream(w)

SpecReimport == InitReimport /\ [][NextReimport]_vars

\* The rows of the file that transform, and their distinct conflict keys.
TransformedRows(f) == {i \in 1..Len(f.rows) : f.rows[i].ok}

DistinctKeys(f) ==
    {<<f.rows[i].receipt_number, f.rows[i].item_name, f.rows[i].receipt_timestamp>> :
        i \in TransformedRows(f)}

SameTenant == task["w1"].tenant_id = task["w2"].tenant_id

\* C1 as stated: the first ingest of a file of N item rows reports
\* inserted_rows = N, the second inserted_rows = 0 and duplicate_skipped = N,
\* and the ledger holds as many rows after the second as after the first.
ReimportInsertsEveryRowOnce ==
    LET n == Cardinality(TransformedRows(task["w1"].file))
    IN  SameTenant =>
          /\ task["w1"].pc = "done" =>
                /\ task["w1"].inserted = n
                /\ Cardinality(ledger) = task["w1"].inserted
          /\ task["w2"].pc = "done" =>
                /\ task["w2"].inserted = 0
                /\ task["w2"].duplicate_skipped = n

\* C1 amended: the first ingest inserts one row per distinct conflict key
\* among the rows that transform and skips the other transformed rows as
\* duplicates; the second inserts nothing and skips every transformed row;
\* the ledger's row count does not change after the first ingest.
ReimportIsIdempotent ==
    LET f == task["w1"].file
        k == Cardinality(DistinctKeys(f))
        m == Cardinality(TransformedRows(f))
    IN  SameTenant =>
          /\ task["w1"].pc = "done" =>
                /\ task["w1"].inserted = k
                /\ task["w1"].duplicate_skipped = m - k
                /\ Len(task["w1"].errors) = Len(f.rows) - m
                /\ Cardinality(ledger) = k
          /\ task["w2"].pc = "done" =>
                /\ task["w2"].inserted = 0
                /\ task["w2"].duplicate_skipped = m

\* Both ingests of a file of several batches are over.
ReimportDone ==
    /\ SameTenant
    /\ task["w2"].pc = "done"
    /\ Len(task["w1"].file.rows) > batch_size
    /\ task["w1"].inserted > batch_size
    /\ task["w2"].duplicate_skipped = task["w1"].inserted

(***************************************************************************)
(* Scenario 3 (SpecAbort): one upload against a storage layer that fails   *)
(* every batch upsert call; the upsert of a single row may succeed or      *)
(* fail.  The file has one row more than six full batches; its first rows  *)
(* carry fresh keys and the others repeat the key of the first row.        *)
(***************************************************************************)
AbortRows == batch_size * (max_consecutive_failures + 1) + 1

FreshPrefixFile(n) ==
    CsvFile([i \in 1..AbortRows |-> Row(IF i <= n THEN i ELSE 1, "Latte", TRUE)])

AbortFiles == {FreshPrefixFile(n) : n \in 1..(2 * batch_size)}

InitAbort ==
    /\ EmptyTables
    /\ anomalies = NoAnomalies
    /\ \E f \in AbortFiles : task = [w \in Workers |-> IdleTask("t1", f)]

NextAbort ==
    \/ Upload("w1")
    \/ BeginProcessing("w1")
    \/ TransformRow("w1")
    \/ LoopEnd("w1")
    \/ BatchUpsertFails("w1")
    \/ RowUpsert("w1")
    \/ RowUpsertFails("w1")
    \/ AbortJob("w1")
    \/ UpdateProgress("w1")
    \/ CheckCancelled("w1")
    \/ RemainingUpsertFails("w1")
    \/ RemainingRowUpsert("w1")
    \/ RemainingRowUpsertFails("w1")
    \/ FinalUpdate("w1")
    \/ Downstream("w1")

SpecAbort == InitAbort /\ [][NextAbort]_vars

\* hist[w].batch_log has one entry per full batch whose upsert call failed:
\* the number of rows its per-row fallback inserted.  A batch is barren when
\* that number is 0.
RECURSIVE SumSeq(_)
SumSeq(s) == IF s = <<>> THEN 0 ELSE Head(s) + SumSeq(Tail(s))

LastBarren(log, n) ==
    /\ Len(log) >= n
    /\ \A i \in (Len(log) - n + 1)..Len(log) : log[i] = 0

Aborting(t) == t.pc = "abort" \/ t.result = "aborted"

AbortReport(w) ==
    task[w].result = "aborted" =>
        /\ jobs[w].status = "failed"
        /\ jobs[w].inserted_rows = SumSeq(hist[w].batch_log)
        /\ task[w].inserted = SumSeq(hist[w].batch_log)
        /\ Cardinality(ledger) = SumSeq(hist[w].batch_log)

\* C6 as stated: with every batch upsert call failing, the job is aborted
\* after exactly 5 failed batch calls, no sixth batch upsert is attempted,
\* and the inserted_rows reported and persisted are the rows the per-row
\* fallback inserted.
AbortsAfterFiveFailedCalls ==
    \A w \in Workers :
        LET log == hist[w].batch_log
        IN  /\ task[w].pc # "retry" =>
                  (Len(log) >= max_consecutive_failures <=> Aborting(task[w]))
            /\ Len(log) <= max_consecutive_failures
            /\ AbortReport(w)

\* C6 amended: the job is aborted exactly when the last 5 failed batches were
\* barren (a fallback insert resets the count), never after a sixth barren
\* batch in a row, and the inserted_rows reported and persisted are the rows
\* the per-row fallback inserted in the batches before them.
AbortsAfterFiveBarrenBatches ==
    \A w \in Workers :
        LET log == hist[w].batch_log
        IN  /\ task[w].pc # "retry" =>
                  (LastBarren(log, max_consecutive_failures) <=> Aborting(task[w]))
            /\ ~LastBarren(log, max_consecutive_failures + 1)
            /\ AbortReport(w)

\* An aborted job that kept rows of an earlier fallback.
AbortedWithFallbackRows ==
    /\ task["w1"].result = "aborted"
    /\ task["w1"].inserted > 0
    /\ jobs["w1"].status = "failed"
    /\ Len(hist["w1"].batch_log) > max_consecutive_failures

(***************************************************************************)
(* Scenario 4 (SpecDownstream): one upload on a reliable storage layer     *)
(* whose downstream steps may fail, with cancel requests and stale-job     *)
(* sweeps.                                                                 *)
(***************************************************************************)
NextDownstream ==
    \/ Ingest("w1")
    \/ Downstream("w1")
    \/ ScanRaises("w1")
    \/ AnomalyScanCaught("w1")
    \/ RefreshSummariesFails("w1")
    \/ RegenerateMenuItemsFails("w1")
    \/ CancelImportJob("w1")
    \/ CleanupStaleJobs

InitDownstream ==
    /\ EmptyTables
    /\ anomalies = NoAnomalies
    /\ \E f \in ConcurrentFiles : task = [w \in Workers |-> IdleTask("t1", f)]

SpecDownstream == InitDownstream /\ [][NextDownstream]_vars

Range(s) == {s[i] : i \in DOMAIN s}

\* process_csv has returned from a run that inserted rows.
ReturnedWithInserts(t) == t.pc = "done" /\ t.result = "returned" /\ t.inserted > 0

\* C9: a failure of the anomaly scan, of the summary refresh or of the menu
\* rollup leaves the job completed, and the steps after the failed one are
\* still invoked.
DownstreamIsolated ==
    /\ [](\A w \in Workers :
            ReturnedWithInserts(task[w]) =>
                /\ {"anomaly", "summaries", "menu"} \subseteq Range(task[w].calls)
                /\ jobs[w].status = "completed")
    /\ [][\A w \in Workers :
            jobs[w].status = "completed" => jobs'[w].status = "completed"]_vars

\* All three downstream steps failed.
AllDownstreamFailed ==
    /\ task["w1"].pc = "done"
    /\ task["w1"].failed_steps = {"anomaly", "summaries", "menu"}
    /\ jobs["w1"].status = "completed"

\* C10 as stated: the menu rollup is invoked first, then the anomaly scan,
\* then the summary refresh.
MenuRollupFirst ==
    \A w \in Workers :
        ReturnedWithInserts(task[w]) =>
            task[w].calls = <<"menu", "anomaly", "summaries">>

\* C10 amended: after a job is completed with inserted > 0 the anomaly scan
\* is invoked first, then the summary refresh, then the menu rollup.
MenuRollupLast ==
    \A w \in Workers :
        ReturnedWithInserts(task[w]) =>
            task[w].calls = <<"anomaly", "summaries", "menu">>

\* The three steps ran and none failed.
DownstreamRan ==
    /\ ReturnedWithInserts(task["w1"])
    /\ task["w1"].failed_steps = {}
    /\ Len(task["w1"].calls) = 3

(***************************************************************************)
(* Scenario 5 (SpecAlerts): anomaly scans on a ledger that no longer       *)
(* changes.  An upload has just written completed with one row inserted    *)
(* and is about to run its post-import scan; a scan job is triggered by    *)
(* hand; days pass.  anomalies[t] is what the detectors find on the data   *)
(* of tenant t, the same at every scan since the ledger and the settings   *)
(* stay as they are.                                                       *)
(***************************************************************************)
RevenueDrop == [type |-> "revenue_drop", subject |-> "", period |-> "w1"]
DetectedLists == {<<>>, <<RevenueDrop>>}

ImportedFile == CsvFile(<<Row(1, "Latte", TRUE)>>)

\* The upload task of w after the final update of its one-row file.
ImportedTask(w) ==
    [IdleTask("t1", ImportedFile) EXCEPT
        !.pc = "anomaly", !.idx = 1, !.inserted = 1,
        !.transactions = <<[tenant_id |-> "t1", receipt_number |-> 1,
                            item_name |-> "Latte", receipt_timestamp |-> 1,
                            import_batch_id |-> w, source_row_number |-> 1]>>]

\* The alert an earlier scan of the day created for the revenue drop.
OlderAlert ==
    [id |-> 1, tenant_id |-> "t1", type |-> RevenueDrop.type,
     fingerprint |-> Fingerprint(RevenueDrop), created_at |-> 0]

InitAlerts ==
    /\ task = [w \in Workers |->
                  IF w = "w1" THEN ImportedTask(w) ELSE IdleTask("t1", ImportedFile)]
    /\ ledger = {ImportedTask("w1").transactions[1]}
    /\ jobs = [w \in Workers |->
                  IF w = "w1"
                  THEN [status |-> "completed", tenant_id |-> "t1",
                        processed_rows |-> 1, inserted_rows |-> 1]
                  ELSE NoJob]
    /\ scan = [p \in Scanners |-> IdleScan]
    /\ scanjobs = [s \in ScanJobs |-> NoScanJob]
    /\ alerts \in {{}, {OlderAlert}}
    /\ now = 0
    /\ hist = [w \in Workers |-> NoHist]
    /\ calc = NoCalc
    /\ \E found \in DetectedLists : anomalies = [t \in Tenants |-> found]

NextAlerts ==
    \/ RunAnomalyScan("w1")
    \/ AnomalyScanReturns("w1")
    \/ AnomalyScanCaught("w1")
    \/ \E p \in Scanners :
         \/ ScanDetect(p)
         \/ CheckCooldown(p)
         \/ InsertAlert(p)
         \/ ScanRaises(p)
    \/ \E s \in ScanJobs :
         \/ \E tenant \in Tenants : TriggerScan(s, tenant)
         \/ StartScanJob(s)
         \/ FinishScanJob(s)
         \/ FailScanJob(s)
    \/ Tick

SpecAlerts == InitAlerts /\ [][NextAlerts]_vars

\* C7: no two alerts of one tenant with the same fingerprint have creation
\* times less than 7 days apart, whatever the interleaving of the scans.
AlertsRespectCooldown ==
    \A a \in alerts, b \in alerts :
        (/\ a # b
         /\ a.tenant_id = b.tenant_id
         /\ a.fingerprint = b.fingerprint
         /\ a.created_at <= b.created_at)
        => b.created_at - a.created_at >= COOLDOWN_DAYS

\* Scan q began when scan p had returned, for the same tenant, and returned
\* within 7 days of p's beginning.
InSequence(p, q) ==
    /\ p \in scan[q].after
    /\ scan[p].pc = "returned"
    /\ scan[q].pc = "returned"
    /\ scan[p].tenant_id = scan[q].tenant_id
    /\ scan[q].ended - scan[p].began <= COOLDOWN_DAYS

NoDownstreamWithoutInserts ==
    \A w \in Workers :
        (/\ task[w].pc = "done"
         /\ task[w].result = "returned"
         /\ task[w].inserted = 0
         /\ task[w].duplicate_skipped > 0)
        => task[w].calls = <<>>

(***************************************************************************)
(* The ledger after a cancel request.                                      *)
(***************************************************************************)
\* C12: once a cancel request has succeeded while the ingest loop was
\* running and the upload task has stopped, the ledger holds no row whose
\* import_batch_id is the cancelled job.
CancelledJobLeavesNoRows ==
    \A w \in Workers :
        (hist[w].cancel_in_loop /\ task[w].pc = "done")
        => \A t \in ledger : t.import_batch_id # w

(***************************************************************************)
(* Binary floating point.  The amounts of a StoreHub row are Python floats *)
(* (IEEE-754 binary64, round to nearest, ties to even) from the CSV parse  *)
(* to the conversion to integer cents, so the arithmetic of                *)
(* transform_storehub_row is done here on binary64 values.  A natural      *)
(* number too wide for TLC's integers is the sequence of its digits in     *)
(* base LimbBase, least significant first, without leading zeros.  A float *)
(* is zero (m empty) or (-1)^neg * m * 2^e with m of exactly MantissaBits  *)
(* bits.  The amounts stay far from overflow, underflow and NaN.           *)
(***************************************************************************)
MantissaBits == 53
LimbBits == 15
\* Quotient bits a division computes before it rounds.
GuardBits == 56
LimbBase == 2 ^ LimbBits

RECURSIVE Limbs(_)
Limbs(n) == IF n = 0 THEN <<>> ELSE <<n % LimbBase>> \o Limbs(n \div LimbBase)

\* The integer of a small natural number.
RECURSIVE FromLimbs(_)
FromLimbs(a) == IF a = <<>> THEN 0 ELSE Head(a) + LimbBase * FromLimbs(Tail(a))

RECURSIVE Norm(_)
Norm(a) ==
    IF a = <<>> THEN <<>>
    ELSE IF a[Len(a)] # 0 THEN a
    ELSE Norm(SubSeq(a, 1, Len(a) - 1))

RECURSIVE AddL(_, _, _)
AddL(a, b, carry) ==
    IF a = <<>> /\ b = <<>> THEN Limbs(carry)
    ELSE LET x == IF a = <<>> THEN 0 ELSE Head(a)
             y == IF b = <<>> THEN 0 ELSE Head(b)
             s == x + y + carry
         IN  <<s % LimbBase>> \o AddL(IF a = <<>> THEN a ELSE Tail(a),
                                      IF b = <<>> THEN b ELSE Tail(b),
                                      s \div LimbBase)

\* a - b - borrow, for a >= b + borrow, leading zeros kept.
RECURSIVE SubRaw(_, _, _)
SubRaw(a, b, borrow) ==
    IF a = <<>> THEN <<>>
    ELSE LET y == IF b = <<>> THEN 0 ELSE Head(b)
             d == Head(a) - y - borrow
         IN  <<d % LimbBase>> \o SubRaw(Tail(a), IF b = <<>> THEN b ELSE Tail(b),
                                        IF d < 0 THEN 1 ELSE 0)

SubL(a, b) == Norm(SubRaw(a, b, 0))

RECURSIVE LessFrom(_, _, _)
LessFrom(a, b, i) ==
    IF i = 0 THEN FALSE
    ELSE IF a[i] # b[i] THEN a[i] < b[i]
    ELSE LessFrom(a, b, i - 1)

\* a < b.
LessL(a, b) == IF Len(a) # Len(b) THEN Len(a) < Len(b) ELSE LessFrom(a, b, Len(a))

\* a * k + carry for a digit k.
RECURSIVE MulSmall(_, _, _)
MulSmall(a, k, carry) ==
    IF a = <<>> THEN Limbs(carry)
    ELSE LET p == Head(a) * k + carry
         IN  <<p % LimbBase>> \o MulSmall(Tail(a), k, p \div LimbBase)

RECURSIVE MulL(_, _)
MulL(a, b) ==
    IF a = <<>> \/ b = <<>> THEN <<>>
    ELSE Norm(AddL(MulSmall(a, Head(b), 0), <<0>> \o MulL(a, Tail(b)), 0))

\* floor(a / k) for a digit k, the digits of a from the top down.
RECURSIVE DivSmallFrom(_, _, _, _)
DivSmallFrom(a, k, i, r) ==
    IF i = 0 THEN <<>>
    ELSE LET v == r * LimbBase + a[i]
         IN  DivSmallFrom(a, k, i - 1, v % k) \o <<v \div k>>

DivSmall(a, k) == Norm(DivSmallFrom(a, k, Len(a), 0))

RECURSIVE Width(_)
Width(n) == IF n = 0 THEN 0 ELSE 1 + Width(n \div 2)

\* The number of bits of a.
BitLen(a) == IF a = <<>> THEN 0 ELSE LimbBits * (Len(a) - 1) + Width(a[Len(a)])

\* Bit i of a, the least significant being bit 1.
Bit(a, i) ==
    LET j == (i - 1) \div LimbBits + 1
    IN  IF i < 1 \/ j > Len(a) THEN 0
        ELSE (a[j] \div 2 ^ ((i - 1) % LimbBits)) % 2

\* a * 2^k.
Shl(a, k) ==
    IF a = <<>> THEN <<>>
    ELSE Norm([i \in 1..(k \div LimbBits) |-> 0] \o MulSmall(a, 2 ^ (k % LimbBits), 0))

\* floor(a / 2^k).
Shr(a, k) ==
    IF k \div LimbBits >= Len(a) THEN <<>>
    ELSE DivSmall(SubSeq(a, k \div LimbBits + 1, Len(a)), 2 ^ (k % LimbBits))

\* a mod 2^k is not zero.
LowBitsSet(a, k) == \E i \in 1..k : Bit(a, i) = 1

\* One step of restoring division by d: the next quotient bit.
DivBit(s, d) ==
    LET r2 == MulSmall(s.r, 2, 0)
    IN  IF LessL(r2, d) THEN [q |-> MulSmall(s.q, 2, 0), r |-> r2]
        ELSE [q |-> MulSmall(s.q, 2, 1), r |-> SubL(r2, d)]

RECURSIVE DivBits(_, _, _)
DivBits(s, d, n) ==
    IF n = 0 THEN s
    ELSE IF s.r = <<>> THEN [q |-> Shl(s.q, n), r |-> <<>>]
    ELSE DivBits(DivBit(DivBit(DivBit(DivBit(s, d), d), d), d), d, n - 4)

\* Quotient and remainder of a * 2^GuardBits by d, for a < 2 * d.
DivL(a, d) ==
    DivBits(IF LessL(a, d) THEN [q |-> <<>>, r |-> a] ELSE [q |-> <<1>>, r |-> SubL(a, d)],
            d, GuardBits)

FZero == [neg |-> FALSE, m |-> <<>>, e |-> 0]

\* The float nearest to (-1)^neg * (a + f) * 2^e, where f is a fraction in
\* [0, 1) that is non-zero exactly when sticky.
RECURSIVE Round53(_, _, _, _)
Round53(neg, a, e, sticky) ==
    LET n == BitLen(a)
        d == n - MantissaBits
    IN  IF n = 0 THEN FZero
        ELSE IF d <= 0 THEN [neg |-> neg, m |-> Shl(a, -d), e |-> e + d]
        ELSE LET kept == Shr(a, d)
                 rest == sticky \/ LowBitsSet(a, d - 1)
                 up   == Bit(a, d) = 1 /\ (rest \/ Bit(kept, 1) = 1)
             IN  IF up THEN Round53(neg, AddL(kept, <<>>, 1), e + d, FALSE)
                 ELSE [neg |-> neg, m |-> kept, e |-> e + d]

\* The float of an integer.
FInt(n) == Round53(n < 0, Limbs(IF n < 0 THEN -n ELSE n), 0, FALSE)

\* x / y, y non-zero.
FDiv(x, y) ==
    IF x.m = <<>> THEN FZero
    ELSE LET qr == DivL(x.m, y.m)
         IN  Round53(x.neg # y.neg, qr.q, x.e - y.e - GuardBits, qr.r # <<>>)

\* x * y.
FMul(x, y) ==
    IF x.m = <<>> \/ y.m = <<>> THEN FZero
    ELSE Round53(x.neg # y.neg, MulL(x.m, y.m), x.e + y.e, FALSE)

\* x + y.
FAdd(x, y) ==
    IF x.m = <<>> THEN y
    ELSE IF y.m = <<>> THEN x
    ELSE LET e == IF x.e < y.e THEN x.e ELSE y.e
             a == Shl(x.m, x.e - e)
             b == Shl(y.m, y.e - e)
         IN  IF x.neg = y.neg THEN Round53(x.neg, AddL(a, b, 0), e, FALSE)
             ELSE IF LessL(a, b) THEN Round53(y.neg, SubL(b, a), e, FALSE)
             ELSE Round53(x.neg, SubL(a, b), e, FALSE)

\* x <= 0.
FNonPositive(x) == x.m = <<>> \/ x.neg

\* int(x): the integer part, truncated toward zero.
FTrunc(x) ==
    LET n == IF x.e >= 0 THEN FromLimbs(Shl(x.m, x.e)) ELSE FromLimbs(Shr(x.m, -x.e))
    IN  IF x.neg THEN -n ELSE n

\* The float of a decimal literal with two decimals, given in cents: the CSV
\* parse of "0.29" is Dec2(29).
Dec2(c) == FDiv(FInt(c), FInt(100))

\* round(x, 2): the exact value of x rounded to a whole number of cents,
\* ties to even, then the float nearest to that decimal.
FRound2(x) ==
    IF x.m = <<>> THEN FZero
    ELSE LET h  == MulSmall(x.m, 100, 0)
             k  == -x.e
             n  == IF k <= 0 THEN FromLimbs(Shl(h, -k)) ELSE FromLimbs(Shr(h, k))
             up == Bit(h, k) = 1 /\ (LowBitsSet(h, k - 1) \/ n % 2 = 1)
             c  == IF up THEN n + 1 ELSE n
         IN  Dec2(IF x.neg THEN -c ELSE c)

(***************************************************************************)
(* Money fields of a transaction.  A receipt of the file is its item rows  *)
(* (SubTotal, Tax and Discount columns, decimal literals given in cents)   *)
(* and the amount of its Service Charge row, 0 when it has none.           *)
(***************************************************************************)
ItemRow(s, t, d) == [subtotal |-> s, tax |-> t, discount |-> d]

\* safe_float of a cell.
safe_float(c) == Dec2(c)

\* safe_int(x * 100, 0): int() truncates toward zero.
safe_int_cents(x) == FTrunc(FMul(x, FInt(100)))

FAbs(x) == [x EXCEPT !.neg = FALSE]

RECURSIVE FSum(_)
FSum(s) == IF s = <<>> THEN FZero ELSE FAdd(FSum(SubSeq(s, 1, Len(s) - 1)), s[Len(s)])

\* calculate_receipt_subtotals: the sum of the SubTotal column over the
\* receipt's item rows.
calculate_receipt_subtotals(rows) ==
    FSum([i \in 1..Len(rows) |-> safe_float(rows[i].subtotal)])

\* extract_service_charge_by_receipt: pd.to_numeric of the Service Charge
\* column of the receipt's Service Charge row.
extract_service_charge_by_receipt(service_charge) == Dec2(service_charge)

allocate_service_charge(item_subtotal, receipt_subtotal, receipt_service_charge) ==
    IF FNonPositive(receipt_subtotal) THEN FZero
    ELSE FRound2(FMul(FDiv(item_subtotal, receipt_subtotal), receipt_service_charge))

\* The money fields transform_storehub_row gives an item row.
transform_storehub_row(row, receipt_sc, receipt_subtotal) ==
    LET item_subtotal == safe_float(row.subtotal)
        allocated_sc  == allocate_service_charge(item_subtotal, receipt_subtotal, receipt_sc)
        discount      == safe_float(row.discount)
        tax           == safe_float(row.tax)
        gross_revenue == FAdd(FAdd(FAdd(item_subtotal, tax), allocated_sc), discount)
    IN  [subtotal |-> safe_int_cents(item_subtotal),
         discount |-> safe_int_cents(FAbs(discount)),
         tax |-> safe_int_cents(tax),
         allocated_service_charge |-> safe_int_cents(allocated_sc),
         gross_revenue |-> safe_int_cents(gross_revenue)]

(***************************************************************************)
(* Scenario: the money fields of one receipt.  The receipt's rows are      *)
(* transformed one after the other, as the loop of process_csv does; no    *)
(* table is touched.                                                       *)
(***************************************************************************)
Quiet ==
    /\ ledger = {}
    /\ jobs = [w \in Workers |-> NoJob]
    /\ task = [w \in Workers |-> IdleTask("t1", CsvFile(<<>>))]
    /\ scan = [p \in Scanners |-> IdleScan]
    /\ scanjobs = [s \in ScanJobs |-> NoScanJob]
    /\ alerts = {}
    /\ anomalies = NoAnomalies
    /\ now = 0
    /\ hist = [w \in Workers |-> NoHist]

SubTotals == {-100, 0, 29, 100, 300}
Taxes == {0, 12}
Discounts == {-10, 0, 10}
ServiceCharges == {0, 29, 40}

MoneyRows == {ItemRow(s, t, d) : s \in SubTotals, t \in Taxes, d \in Discounts}

MoneyReceipts ==
    {<<r>> : r \in MoneyRows}
        \cup {<<r, ItemRow(s, 0, 0)>> : r \in MoneyRows, s \in SubTotals}

InitMoney ==
    /\ Quiet
    /\ \E rows \in MoneyReceipts, sc \in ServiceCharges :
         calc = [op |-> "transform", rows |-> rows, service_charge |-> sc, out |-> <<>>]

\* import_service.py line 138 for the next row of the receipt.
TransformStorehubRow ==
    /\ calc.op = "transform"
    /\ Len(calc.out) < Len(calc.rows)
    /\ calc' = [calc EXCEPT !.out =
                   Append(@, transform_storehub_row(calc.rows[Len(calc.out) + 1],
                                                    extract_service_charge_by_receipt(calc.service_charge),
                                                    calculate_receipt_subtotals(calc.rows)))]
    /\ UNCHANGED <<ledger, jobs, task, scan, scanjobs, alerts, anomalies, now, hist>>

NextMoney == TransformStorehubRow

SpecMoney == InitMoney /\ [][NextMoney]_vars

\* C13: every transaction transform_storehub_row produces satisfies
\* gross_revenue = subtotal + tax + allocated_service_charge - discount over
\* its stored integer-cent fields, discount being the stored magnitude,
\* whatever the sign of the source row's discount.
GrossRevenueIdentity ==
    calc.op = "transform" =>
        \A i \in 1..Len(calc.out) :
            calc.out[i].gross_revenue
                = calc.out[i].subtotal + calc.out[i].tax
                    + calc.out[i].allocated_service_charge - calc.out[i].discount

\* The receipt in source cents, for comparison with the stored allocations.
Abs(n) == IF n < 0 THEN -n ELSE n

ReceiptTotal == SumSeq([i \in 1..Len(calc.rows) |-> calc.rows[i].subtotal])

AllocatedToTheCent ==
    \A i \in 1..Len(calc.out) :
        2 * Abs(calc.out[i].allocated_service_charge * ReceiptTotal
                    - calc.service_charge * calc.rows[i].subtotal) <= ReceiptTotal

ExampleAllocation ==
    (/\ Len(calc.out) = 2
     /\ calc.rows[1].subtotal = 100
     /\ calc.rows[2].subtotal = 300
     /\ calc.service_charge = 40)
    => (/\ calc.out[1].allocated_service_charge = 10
        /\ calc.out[2].allocated_service_charge = 30)

AllocationDrift ==
    Abs(SumSeq([i \in 1..Len(calc.out) |-> calc.out[i].allocated_service_charge])
            - calc.service_charge)

\* C14: on a receipt whose item rows have a positive total subtotal, each
\* row's allocated service charge is the receipt's service charge times
\* item_subtotal / receipt_subtotal rounded to the cent, the allocations of
\* the receipt sum to the service charge with a drift of at most one cent
\* per item, and subtotals 100 and 300 with a charge of 40 give 10 and 30.
ServiceChargeAllocation ==
    (calc.op = "transform" /\ ReceiptTotal > 0) =>
        /\ AllocatedToTheCent
        /\ Len(calc.out) = Len(calc.rows) => AllocationDrift <= Len(calc.rows)
        /\ ExampleAllocation

(***************************************************************************)
(* Menu engineering quadrants.  Quantities, prices and medians are numbers *)
(* compared with >=; a median of an even count of items is a half, so      *)
(* every number is given here in halves.                                   *)
(***************************************************************************)
MaxLevel == 3
Levels == 0..MaxLevel

\* A classifier that compares the quantity with > instead of >=.
calculate_quadrant_strict(quantity, price, median_quantity, median_price) ==
    LET high_popularity    == quantity > median_quantity
        high_profitability == price >= median_price
    IN  IF high_popularity /\ high_profitability THEN "Star"
        ELSE IF high_popularity /\ ~high_profitability THEN "Plowhorse"
        ELSE IF ~high_popularity /\ high_profitability THEN "Puzzle"
        ELSE "Dog"

\* routes/analytics.py
calculate_quadrant(quantity, price, median_quantity, median_price) ==
    LET high_popularity    == quantity >= median_quantity
        high_profitability == price >= median_price
    IN  IF high_popularity /\ high_profitability THEN "Star"
        ELSE IF high_popularity /\ ~high_profitability THEN "Plowhorse"
        ELSE IF ~high_popularity /\ high_profitability THEN "Puzzle"
        ELSE "Dog"

\* modules/data_processing.py
assign_quadrant(total_quantity, avg_price, median_quantity, median_price) ==
    LET high_popularity == total_quantity >= median_quantity
        high_profit     == avg_price >= median_price
    IN  IF high_popularity /\ high_profit THEN "Star"
        ELSE IF high_popularity /\ ~high_profit THEN "Plowhorse"
        ELSE IF ~high_popularity /\ high_profit THEN "Puzzle"
        ELSE "Dog"

\* modules/anomaly.py, the body of the loop that assigns quadrants in
\* get_quadrant_for_period; data is an item's aggregate.
get_quadrant_for_period_rule(data, median_qty, median_price) ==
    LET high_popularity    == data.quantity >= median_qty
        high_profitability == data.avg_price >= median_price
    IN  IF high_popularity /\ high_profitability THEN "Star"
        ELSE IF high_popularity /\ ~high_profitability THEN "Plowhorse"
        ELSE IF ~high_popularity /\ high_profitability THEN "Puzzle"
        ELSE "Dog"

InitQuadrant ==
    /\ Quiet
    /\ \E q \in Levels, p \in Levels, mq \in Levels, mp \in Levels :
         calc = [op |-> "quadrant", quantity |-> q, price |-> p,
                 median_quantity |-> mq, median_price |-> mp,
                 calculate |-> "none", assign |-> "none", rule |-> "none"]

CalculateQuadrant ==
    /\ calc.op = "quadrant"
    /\ calc.calculate = "none"
    /\ calc' = [calc EXCEPT !.calculate =
                   calculate_quadrant(calc.quantity, calc.price,
                                      calc.median_quantity, calc.median_price)]
    /\ UNCHANGED <<ledger, jobs, task, scan, scanjobs, alerts, anomalies, now, hist>>

AssignQuadrant ==
    /\ calc.op = "quadrant"
    /\ calc.assign = "none"
    /\ calc' = [calc EXCEPT !.assign =
                   assign_quadrant(calc.quantity, calc.price,
                                   calc.median_quantity, calc.median_price)]
    /\ UNCHANGED <<ledger, jobs, task, scan, scanjobs, alerts, anomalies, now, hist>>

QuadrantForPeriod ==
    /\ calc.op = "quadrant"
    /\ calc.rule = "none"
    /\ calc' = [calc EXCEPT !.rule =
                   get_quadrant_for_period_rule(
                       [quantity |-> calc.quantity, avg_price |-> calc.price],
                       calc.median_quantity, calc.median_price)]
    /\ UNCHANGED <<ledger, jobs, task, scan, scanjobs, alerts, anomalies, now, hist>>

NextQuadrant == CalculateQuadrant \/ AssignQuadrant \/ QuadrantForPeriod

SpecQuadrant == InitQuadrant /\ [][NextQuadrant]_vars

QuadrantResults == {calc.calculate, calc.assign, calc.rule} \ {"none"}

\* C15: each of calculate_quadrant, assign_quadrant and the rule of
\* get_quadrant_for_period returns Star iff quantity >= median quantity and
\* price >= median price, Plowhorse iff quantity >= median quantity and
\* price < median price, Puzzle iff quantity < median quantity and price >=
\* median price, and Dog otherwise; so the three agree, and an item exactly
\* at both medians is a Star.
QuadrantClassifier ==
    calc.op = "quadrant" =>
        \A r \in QuadrantResults :
            /\ r = "Star" <=> (/\ calc.quantity >= calc.median_quantity
                               /\ calc.price >= calc.median_price)
            /\ r = "Plowhorse" <=> (/\ calc.quantity >= calc.median_quantity
                                    /\ calc.price < calc.median_price)
            /\ r = "Puzzle" <=> (/\ calc.quantity < calc.median_quantity
                                 /\ calc.price >= calc.median_price)
            /\ r = "Dog" <=> ~(\/ calc.quantity >= calc.median_quantity
                               \/ calc.price >= calc.median_price)

AtBothMediansIsStar ==
    /\ calc.op = "quadrant"
    /\ calc.quantity = calc.median_quantity
    /\ calc.price = calc.median_price
    /\ calc.calculate = "Star"
    /\ calc.assign = "Star"
    /\ calc.rule = "Star"

(***************************************************************************)
(* Revenue drop detection.  get_latest_transaction_date and the two calls  *)
(* of get_period_revenue are the inputs: whether the tenant has a latest   *)
(* transaction date, and the revenue in cents of the trailing seven days   *)
(* and of the seven days before them.  change_pct is a Python float.       *)
(***************************************************************************)
\* x <= y.
FLessEq(x, y) ==
    IF x.m = <<>> THEN y.m = <<>> \/ ~y.neg
    ELSE IF y.m = <<>> THEN x.neg
    ELSE IF x.neg # y.neg THEN x.neg
    ELSE LET e == IF x.e < y.e THEN x.e ELSE y.e
             a == Shl(x.m, x.e - e)
             b == Shl(y.m, y.e - e)
         IN  IF x.neg THEN ~LessL(a, b) ELSE ~LessL(b, a)

\* The severity cut of line 174.
CRITICAL_DROP_PCT == 30

NoAttempt == [attempted |-> FALSE, severity |-> "none"]

\* A severity rule that is warning down to and including the cut.
RevenueDropSeverityInclusive(change_pct) ==
    IF FLessEq(FInt(-CRITICAL_DROP_PCT), change_pct) THEN "warning" ELSE "critical"

\* severity="warning" if change_pct > -30 else "critical"
RevenueDropSeverity(change_pct) ==
    IF ~FLessEq(change_pct, FInt(-CRITICAL_DROP_PCT)) THEN "warning" ELSE "critical"

\* The create_alert call detect_revenue_anomalies makes, if any.
detect_revenue_anomalies(latest_date, current_revenue, prior_revenue, threshold_pct) ==
    IF ~latest_date THEN NoAttempt
    ELSE IF prior_revenue = 0 THEN NoAttempt
    ELSE LET change_pct ==
                 FMul(FDiv(FInt(current_revenue - prior_revenue), FInt(prior_revenue)),
                      FInt(100))
         IN  IF FLessEq(change_pct, FInt(-threshold_pct))
             THEN [attempted |-> TRUE, severity |-> RevenueDropSeverity(change_pct)]
             ELSE NoAttempt

PriorRevenues == {-100, 0, 100}
CurrentRevenues == {0, 69, 70, 71, 80, 81, 100}
\* revenue_drop_pct: the default and a setting of the tenant's.
Thresholds == {20, 29}

InitRevenue ==
    /\ Quiet
    /\ \E l \in BOOLEAN, c \in CurrentRevenues, p \in PriorRevenues, t \in Thresholds :
         calc = [op |-> "revenue", latest_date |-> l, current_revenue |-> c,
                 prior_revenue |-> p, revenue_drop_pct |-> t,
                 returned |-> FALSE, alert |-> NoAttempt]

DetectRevenueAnomalies ==
    /\ calc.op = "revenue"
    /\ ~calc.returned
    /\ calc' = [calc EXCEPT !.returned = TRUE,
                            !.alert = detect_revenue_anomalies(
                                          calc.latest_date, calc.current_revenue,
                                          calc.prior_revenue, calc.revenue_drop_pct)]
    /\ UNCHANGED <<ledger, jobs, task, scan, scanjobs, alerts, anomalies, now, hist>>

NextRevenue == DetectRevenueAnomalies

SpecRevenue == InitRevenue /\ [][NextRevenue]_vars

\* (current - prior) / prior * 100 <= -pct, in exact arithmetic, for a
\* non-zero prior.
DropAtLeast(pct) ==
    IF calc.prior_revenue > 0
    THEN (calc.current_revenue - calc.prior_revenue) * 100 <= -pct * calc.prior_revenue
    ELSE (calc.current_revenue - calc.prior_revenue) * 100 >= -pct * calc.prior_revenue

\* C16: detect_revenue_anomalies attempts a revenue_drop alert iff there is a
\* latest transaction date, the prior window's revenue is non-zero and
\* (current - prior) / prior * 100 <= -revenue_drop_pct; with a prior revenue
\* of zero it attempts none.
RevenueAlertIffDrop ==
    (calc.op = "revenue" /\ calc.returned) =>
        (calc.alert.attempted <=> (/\ calc.latest_date
                                   /\ calc.prior_revenue # 0
                                   /\ DropAtLeast(calc.revenue_drop_pct)))

\* (current - prior) / prior * 100 < -pct, in exact arithmetic.
DropOver(pct) ==
    IF calc.prior_revenue > 0
    THEN (calc.current_revenue - calc.prior_revenue) * 100 < -pct * calc.prior_revenue
    ELSE (calc.current_revenue - calc.prior_revenue) * 100 > -pct * calc.prior_revenue

\* C17 as stated: a revenue_drop alert is critical exactly when the drop is
\* strictly greater than 30% of the prior revenue, and warning for every
\* other drop that meets the threshold, a drop of exactly 30% included.
CriticalOnlyOverThirty ==
    (calc.op = "revenue" /\ calc.alert.attempted) =>
        /\ calc.alert.severity = "critical" <=> DropOver(CRITICAL_DROP_PCT)
        /\ calc.alert.severity = "warning" <=> ~DropOver(CRITICAL_DROP_PCT)

\* C17 amended: a revenue_drop alert is critical exactly when the drop is
\* at least 30% of the prior revenue, a drop of exactly 30% included, and
\* warning for every smaller drop that meets the threshold.
CriticalFromThirty ==
    (calc.op = "revenue" /\ calc.alert.attempted) =>
        /\ calc.alert.severity = "critical" <=> DropAtLeast(CRITICAL_DROP_PCT)
        /\ calc.alert.severity = "warning" <=> ~DropAtLeast(CRITICAL_DROP_PCT)

DropOfExactlyThirty ==
    /\ calc.op = "revenue"
    /\ calc.alert.attempted
    /\ calc.prior_revenue = 100
    /\ calc.current_revenue = 70
    /\ calc.alert.severity = "critical"

(***************************************************************************)
(* The upload endpoint.  A request is the user's role and tenant (from     *)
(* get_user_with_tenant), the tenant_id parameter and the file name; a     *)
(* tenant that is None is the empty string, which Python's truth tests     *)
(* treat alike.  A file name is the sequence of its characters.            *)
(***************************************************************************)
Roles == {"viewer", "owner", "operator", "authenticated"}
TenantArgs == {""} \cup Tenants
FileNames ==
    {<<>>, <<"a", ".", "c", "s", "v">>, <<"a", ".", "x", "l", "s", "x">>,
     <<"a", ".", "C", "S", "V">>}

\* str.endswith
EndsWith(s, suffix) ==
    /\ Len(s) >= Len(suffix)
    /\ SubSeq(s, Len(s) - Len(suffix) + 1, Len(s)) = suffix

\* A validation that lets viewers through to the tenant checks.
UploadValidationWithoutViewerCheck(role, user_tenant, tenant_id, filename) ==
    LET target_tenant == IF role = "operator"
                         THEN IF tenant_id # "" THEN tenant_id ELSE user_tenant
                         ELSE user_tenant
    IN  IF role = "operator" /\ target_tenant = "" THEN [status |-> 400, tenant |-> ""]
        ELSE IF role # "operator" /\ user_tenant = "" THEN [status |-> 400, tenant |-> ""]
        ELSE IF role # "operator" /\ tenant_id # "" /\ tenant_id # user_tenant
        THEN [status |-> 403, tenant |-> ""]
        ELSE IF filename = <<>> \/ ~EndsWith(filename, <<".", "c", "s", "v">>)
        THEN [status |-> 400, tenant |-> ""]
        ELSE [status |-> 200, tenant |-> target_tenant]

\* upload_csv lines 186-223: the HTTPException raised before the try block,
\* or the target tenant of the upload.
UploadValidation(role, user_tenant, tenant_id, filename) ==
    LET target_tenant == IF role = "operator"
                         THEN IF tenant_id # "" THEN tenant_id ELSE user_tenant
                         ELSE user_tenant
    IN  IF role = "viewer" THEN [status |-> 403, tenant |-> ""]
        ELSE IF role = "operator" /\ target_tenant = "" THEN [status |-> 400, tenant |-> ""]
        ELSE IF role # "operator" /\ user_tenant = "" THEN [status |-> 400, tenant |-> ""]
        ELSE IF role # "operator" /\ tenant_id # "" /\ tenant_id # user_tenant
        THEN [status |-> 403, tenant |-> ""]
        ELSE IF filename = <<>> \/ ~EndsWith(filename, <<".", "c", "s", "v">>)
        THEN [status |-> 400, tenant |-> ""]
        ELSE [status |-> 200, tenant |-> target_tenant]

Validated ==
    UploadValidation(calc.role, calc.user_tenant, calc.tenant_id, calc.filename)

InitUpload ==
    /\ Quiet
    /\ \E r \in Roles, ut \in TenantArgs, t \in TenantArgs, f \in FileNames :
         calc = [op |-> "upload", role |-> r, user_tenant |-> ut, tenant_id |-> t,
                 filename |-> f, status |-> 0, effects |-> <<>>]

\* upload_csv raises on validation: nothing else runs.
UploadCsvRejected ==
    /\ calc.op = "upload"
    /\ calc.status = 0
    /\ Validated.status # 200
    /\ calc' = [calc EXCEPT !.status = Validated.status]
    /\ UNCHANGED <<ledger, jobs, task, scan, scanjobs, alerts, anomalies, now, hist>>

\* upload_csv lines 226-271: stale-job sweep, storage upload (its failure is
\* swallowed), create_import_job, background task.
UploadCsvAccepted ==
    /\ calc.op = "upload"
    /\ calc.status = 0
    /\ Validated.status = 200
    /\ \E S \in SUBSET ProcessingJobs(jobs) :
         jobs' = CreateImportJob(SweepStale(jobs, S), "w1", Validated.tenant)
    /\ task' = [task EXCEPT !["w1"].pc = "queued", !["w1"].tenant_id = Validated.tenant]
    /\ calc' = [calc EXCEPT !.status = 200,
                            !.effects = <<"cleanup_stale_jobs", "storage_upload",
                                          "create_import_job", "add_task">>]
    /\ UNCHANGED <<ledger, scan, scanjobs, alerts, anomalies, now, hist>>

\* upload_csv lines 272-280: create_import_job raises after the sweep and the
\* storage upload; the handler answers 500.
UploadCsvFails ==
    /\ calc.op = "upload"
    /\ calc.status = 0
    /\ Validated.status = 200
    /\ \E S \in SUBSET ProcessingJobs(jobs) : jobs' = SweepStale(jobs, S)
    /\ calc' = [calc EXCEPT !.status = 500,
                            !.effects = <<"cleanup_stale_jobs", "storage_upload">>]
    /\ UNCHANGED <<ledger, task, scan, scanjobs, alerts, anomalies, now, hist>>

NextUpload == UploadCsvRejected \/ UploadCsvAccepted \/ UploadCsvFails

SpecUpload == InitUpload /\ [][NextUpload]_vars

NamesAnotherTenant ==
    /\ calc.role # "operator"
    /\ calc.user_tenant # ""
    /\ calc.tenant_id # ""
    /\ calc.tenant_id # calc.user_tenant

OperatorWithoutTenant ==
    calc.role = "operator" /\ calc.tenant_id = "" /\ calc.user_tenant = ""

NotCsvName == ~EndsWith(calc.filename, <<".", "c", "s", "v">>)

\* C18: upload_csv answers 403 to a viewer and to a non-operator naming a
\* tenant other than their own, 400 to an operator with neither a tenant_id
\* parameter nor an active tenant, and rejects a file name not ending in
\* .csv, with 400 when the user and tenant checks pass; a request rejected
\* with 403 or 400 creates no ImportJob row, issues no stale-job sweep or
\* storage upload, and schedules no background task.
UploadRejections ==
    (calc.op = "upload" /\ calc.status # 0) =>
        /\ calc.role = "viewer" => calc.status = 403
        /\ NamesAnotherTenant => calc.status = 403
        /\ OperatorWithoutTenant => calc.status = 400
        /\ NotCsvName => calc.status \in {400, 403}
        /\ (NotCsvName /\ calc.role # "viewer" /\ ~NamesAnotherTenant) => calc.status = 400
        /\ calc.status \in {400, 403} =>
               /\ calc.effects = <<>>
               /\ \A w \in Workers : jobs[w] = NoJob
               /\ \A w \in Workers : task[w].pc = "idle"

OwnerNamingAnotherTenantRejected ==
    /\ calc.op = "upload"
    /\ calc.role = "owner"
    /\ NamesAnotherTenant
    /\ calc.status = 403
    /\ calc.effects = <<>>

(***************************************************************************)
(* Tenant resolution.  get_effective_tenant_id returns a tenant id or      *)
(* raises an HTTPException; a tenant or an override that is None is the    *)
(* empty string.                                                           *)
(***************************************************************************)
Returns(tenant) == [status |-> 200, tenant |-> tenant]
Raises(code) == [status |-> code, tenant |-> ""]

\* A resolution that honours the override for every role.
get_effective_tenant_id_for_any_role(role, user_tenant, tenant_id_override) ==
    IF tenant_id_override # "" THEN Returns(tenant_id_override)
    ELSE IF user_tenant # "" THEN Returns(user_tenant)
    ELSE IF role = "operator" THEN Raises(400)
    ELSE Raises(403)

get_effective_tenant_id(role, user_tenant, tenant_id_override) ==
    IF role = "operator"
    THEN IF tenant_id_override # "" THEN Returns(tenant_id_override)
         ELSE IF user_tenant # "" THEN Returns(user_tenant)
         ELSE Raises(400)
    ELSE IF user_tenant # "" THEN Returns(user_tenant)
    ELSE Raises(403)

Overrides == TenantArgs \cup {"t3"}

NoResult == [status |-> 0, tenant |-> ""]

InitTenant ==
    /\ Quiet
    /\ \E r \in Roles, ut \in TenantArgs :
         calc = [op |-> "tenant", role |-> r, user_tenant |-> ut,
                 results |-> [o \in Overrides |-> NoResult]]

\* One call of get_effective_tenant_id by the same user.
GetEffectiveTenantId(o) ==
    /\ calc.op = "tenant"
    /\ calc.results[o] = NoResult
    /\ calc' = [calc EXCEPT !.results[o] =
                   get_effective_tenant_id(calc.role, calc.user_tenant, o)]
    /\ UNCHANGED <<ledger, jobs, task, scan, scanjobs, alerts, anomalies, now, hist>>

NextTenant == \E o \in Overrides : GetEffectiveTenantId(o)

SpecTenant == InitTenant /\ [][NextTenant]_vars

Called == {o \in Overrides : calc.results[o] # NoResult}

\* C19: for a user who is not an operator get_effective_tenant_id returns
\* the user's own tenant whatever the override, and raises 403 when the user
\* has no tenant; two calls that differ only in the override differ in their
\* result only for an operator; an operator with neither override nor own
\* tenant gets 400.
OverrideOnlyForOperators ==
    calc.op = "tenant" =>
        /\ \A o \in Called :
               /\ (calc.role # "operator" /\ calc.user_tenant # "")
                      => calc.results[o] = Returns(calc.user_tenant)
               /\ (calc.role # "operator" /\ calc.user_tenant = "")
                      => calc.results[o] = Raises(403)
               /\ (calc.role = "operator" /\ o = "" /\ calc.user_tenant = "")
                      => calc.results[o] = Raises(400)
        /\ \A o1 \in Called, o2 \in Called :
               calc.results[o1] # calc.results[o2] => calc.role = "operator"

OwnerOverrideIgnored ==
    /\ calc.op = "tenant"
    /\ calc.role = "owner"
    /\ calc.user_tenant = "t1"
    /\ {"", "t2"} \subseteq Called
    /\ calc.results["t2"] = Returns("t1")
    /\ calc.results[""] = Returns("t1")

\* C20: the ingestor re-reads the job status after every batch upsert, the
\* last, possibly partial, batch of the file included, and on reading
\* cancelled returns without writing completed: a job that is cancelled when
\* its last batch is upserted is never written completed afterwards, also
\* when the file has fewer item rows than one batch.
CancelCheckedAfterLastBatch ==
    \A w \in Workers :
        hist[w].last_upsert_cancelled => jobs[w].status # "completed"

(***************************************************************************)
(* The per-row retry of a failed batch, checked under SpecAbort, where     *)
(* every batch upsert call fails.                                          *)
(***************************************************************************)
\* One step of the retry loop of task w (lines 172-188 and 258-273): t and u
\* are the task before and after, led and led2 the ledger before and after.
\* The row at the retry index is counted exactly once, as inserted (and then
\* it is in the ledger), as duplicate (and the ledger is unchanged) or as
\* one more error entry carrying its row number; and the loop moves to the
\* next row of the batch whatever the outcome.
RowRetriedOnce(t, u, led, led2) ==
    LET row == t.transactions[t.retry]
        di == u.inserted - t.inserted
        dd == u.duplicate_skipped - t.duplicate_skipped
        de == Len(u.errors) - Len(t.errors)
    IN  /\ {di, dd, de} \subseteq {0, 1}
        /\ di + dd + de = 1
        /\ di = 1 => led2 = led \cup {row} /\ row \notin led
        /\ dd = 1 => led2 = led /\ Conflicts(led, row)
        /\ de = 1 => led2 = led /\ u.errors = Append(t.errors, row.source_row_number)
        /\ t.retry < Len(t.transactions) =>
               /\ u.pc = t.pc
               /\ u.retry = t.retry + 1
               /\ u.transactions = t.transactions

\* A failed batch call starts the retry at the first row of the batch and
\* counts nothing by itself.
RetryStartsAtFirstRow(t, u) ==
    /\ u.retry = 1
    /\ u.transactions = t.transactions
    /\ u.inserted = t.inserted
    /\ u.duplicate_skipped = t.duplicate_skipped
    /\ u.errors = t.errors

InRetry(t) == t.pc \in {"retry", "retry_remaining"}

RetryEveryRow(w) ==
    /\ (task[w].pc \in {"batch", "remaining"} /\ InRetry(task'[w]))
           => RetryStartsAtFirstRow(task[w], task'[w])
    /\ (InRetry(task[w]) /\ task'[w] # task[w])
           => RowRetriedOnce(task[w], task'[w], ledger, ledger')

LastRowRetried(w) ==
    /\ InRetry(task[w])
    /\ task'[w] # task[w]
    /\ task[w].retry = Len(task[w].transactions)

\* C21 as stated: when a batch upsert call fails, every row of the batch is
\* retried individually exactly once, counted as inserted, duplicate or one
\* error entry, a row failure does not stop the other rows from being
\* attempted, and the run continues with the next batch.
RetryThenNextBatch ==
    [][\A w \in Workers :
         /\ RetryEveryRow(w)
         /\ LastRowRetried(w) =>
                task'[w].pc = IF task[w].pc = "retry" THEN "progress" ELSE "final"]_vars

\* C21 amended: as above, but after the retry of a full batch the run
\* continues with the next batch unless the last max_consecutive_failures
\* failed batches were barren, in which case the job is aborted; after the
\* retry of the last, partial batch the run always goes on to the final update.
RetryThenNextBatchOrAbort ==
    [][\A w \in Workers :
         /\ RetryEveryRow(w)
         /\ LastRowRetried(w) =>
                task'[w].pc =
                    IF task[w].pc = "retry_remaining" THEN "final"
                    ELSE IF LastBarren(hist'[w].batch_log, max_consecutive_failures)
                         THEN "abort" ELSE "progress"]_vars

\* The first row of a failed batch failed on its own, the second was
\* inserted, and the next batch has been issued.
RowFailureDidNotSinkBatch ==
    /\ task["w1"].errors = <<1>>
    /\ task["w1"].inserted = 1
    /\ Len(hist["w1"].batch_log) = 2
    /\ hist["w1"].batch_log[1] = 1

(***************************************************************************)
(* Scenario SpecFlaky: one upload against a storage layer on which any     *)
(* upsert call, of a batch or of a single row, may succeed or fail.  The   *)
(* ledger may already hold a row of an earlier import; the file has up to  *)
(* two full batches and one more row, rows may repeat a key, and a row may *)
(* fail to transform.  With so few batches the abort threshold is out of   *)
(* reach.                                                                  *)
(***************************************************************************)
FlakyRows == 2 * batch_size + 1

FlakyRowUniverse ==
    {Row(1, "Latte", TRUE), Row(2, "Latte", TRUE), Row(1, "Latte", FALSE)}

FlakyFiles == {CsvFile(rows) : rows \in SeqsUpTo(FlakyRowUniverse, FlakyRows)}

\* A row an earlier import (w2's) left in the tenant's ledger.
EarlierRow ==
    [tenant_id |-> "t1", receipt_number |-> 1, item_name |-> "Latte",
     receipt_timestamp |-> 1, import_batch_id |-> "w2", source_row_number |-> 7]

InitFlaky ==
    /\ ledger \in {{}, {EarlierRow}}
    /\ jobs = [w \in Workers |-> NoJob]
    /\ scan = [p \in Scanners |-> IdleScan]
    /\ scanjobs = [s \in ScanJobs |-> NoScanJob]
    /\ alerts = {}
    /\ anomalies = NoAnomalies
    /\ now = 0
    /\ hist = [w \in Workers |-> NoHist]
    /\ calc = NoCalc
    /\ \E f \in FlakyFiles : task = [w \in Workers |-> IdleTask("t1", f)]

NextFlaky ==
    \/ Upload("w1")
    \/ BeginProcessing("w1")
    \/ TransformRow("w1")
    \/ TransformRowRaises("w1")
    \/ LoopEnd("w1")
    \/ BatchUpsert("w1")
    \/ BatchUpsertFails("w1")
    \/ RowUpsert("w1")
    \/ RowUpsertFails("w1")
    \/ UpdateProgress("w1")
    \/ CheckCancelled("w1")
    \/ RemainingUpsert("w1")
    \/ RemainingUpsertFails("w1")
    \/ RemainingRowUpsert("w1")
    \/ RemainingRowUpsertFails("w1")
    \/ FinalUpdate("w1")
    \/ Downstream("w1")

SpecFlaky == InitFlaky /\ [][NextFlaky]_vars

\* The upsert call of a full batch of w returned (hist logs -1 for a call
\* that returned, 0 for one that raised).
BatchCallReturned(w) ==
    /\ task[w].pc = "batch"
    /\ hist'[w].batch_log = Append(hist[w].batch_log, -1)

AllConflict(led, ts) == \A i \in DOMAIN ts : Conflicts(led, ts[i])

\* C22: a batch upsert call that returns zero inserted rows because every
\* row conflicted with an existing row is a success: all rows of the batch
\* are added to duplicate_skipped, no error entry is recorded, no per-row
\* retry is made, and the consecutive-failure counter is reset to 0.
ZeroInsertBatchIsSuccess ==
    [][\A w \in Workers :
         (BatchCallReturned(w) /\ AllConflict(ledger, task[w].transactions)) =>
             /\ ledger' = ledger
             /\ task'[w].inserted = task[w].inserted
             /\ task'[w].duplicate_skipped =
                    task[w].duplicate_skipped + Len(task[w].transactions)
             /\ task'[w].errors = task[w].errors
             /\ task'[w].retry = 0
             /\ task'[w].pc = "progress"
             /\ task'[w].consecutive_failures = 0]_vars

\* The first batch failed and its retry inserted nothing, so the counter
\* stood at 1; the second batch's call returned with nothing inserted.
ZeroInsertBatchResetCounter ==
    /\ task["w1"].pc = "progress"
    /\ hist["w1"].batch_log = <<0, -1>>
    /\ task["w1"].inserted = 0
    /\ task["w1"].duplicate_skipped >= batch_size
    /\ task["w1"].consecutive_failures = 0
    /\ task["w1"].errors = <<>>

\* C23: after each completed batch the job row's processed_rows and
\* inserted_rows equal the ingestor's running counts at that batch boundary;
\* over one ingest the persisted processed_rows and inserted_rows never
\* decrease, and inserted_rows <= processed_rows <= number of item rows.
ProgressPersisted ==
    [][\A w \in Workers :
         /\ (task[w].pc = "progress" /\ task'[w].pc # "progress") =>
                /\ jobs'[w].processed_rows = task[w].idx
                /\ jobs'[w].inserted_rows = task[w].inserted
         /\ jobs'[w].processed_rows >= jobs[w].processed_rows
         /\ jobs'[w].inserted_rows >= jobs[w].inserted_rows
         /\ jobs'[w].inserted_rows <= jobs'[w].processed_rows
         /\ jobs'[w].processed_rows <= Len(task[w].file.rows)]_vars

\* The progress of the second batch has been written: some of the rows
\* consumed so far were inserted, the others were duplicates or errors.
SecondBatchProgressWritten ==
    /\ task["w1"].pc = "cancel_check"
    /\ Len(hist["w1"].batch_log) = 2
    /\ jobs["w1"].status = "processing"
    /\ jobs["w1"].processed_rows = 2 * batch_size
    /\ jobs["w1"].inserted_rows \in 1..(2 * batch_size - 1)
    /\ task["w1"].errors # <<>>

(***************************************************************************)
(* Scenario SpecReturns: the three ways process_csv returns.  One upload   *)
(* of a long file against a storage layer that fails every batch upsert    *)
(* call, as in SpecAbort, with a row that may fail to transform and a      *)
(* cancel request that arrives between the progress write of a batch and   *)
(* the re-read of the status, the one moment at which the loop sees it.    *)
(***************************************************************************)
\* The long file whose rows all carry one key, and the same file with a
\* first row that fails to transform.
ReturnFiles ==
    {CsvFile([i \in 1..AbortRows |-> Row(1, "Latte", i > 1 \/ good)]) :
        good \in BOOLEAN}

InitReturns ==
    /\ EmptyTables
    /\ anomalies = NoAnomalies
    /\ \E f \in ReturnFiles : task = [w \in Workers |-> IdleTask("t1", f)]

NextReturns ==
    \/ NextAbort
    \/ TransformRowRaises("w1")
    \/ task["w1"].pc = "cancel_check" /\ CancelImportJob("w1")

SpecReturns == InitReturns /\ [][NextReturns]_vars

\* The processed_rows of the dict process_csv returns: idx + 1 at an abort
\* (line 209) or a cancellation (line 234), len(items_df) at the normal
\* return (line 319).
ReportedProcessedRows(t) ==
    IF t.result \in {"aborted", "cancelled"} THEN t.idx ELSE Len(t.file.rows)

Returned(t) == t.result \in {"returned", "aborted", "cancelled"}

NoAbortAfterLastBatch ==
    [][\A w \in Workers :
         /\ task[w].pc \in {"remaining", "retry_remaining"} =>
                /\ task'[w].consecutive_failures = task[w].consecutive_failures
                /\ task'[w].pc \in {"remaining", "retry_remaining", "final"}
                /\ jobs'[w] = jobs[w]
         /\ (task[w].pc = "remaining" /\ task'[w].pc = "retry_remaining") =>
                RetryStartsAtFirstRow(task[w], task'[w])
         /\ (Len(task[w].file.rows) < batch_size /\ task'[w].pc = "done") =>
                jobs'[w].status = "completed"]_vars

\* A file of fewer rows than one batch, every storage call of which failed,
\* has ended completed.
SmallFileCompletedWithoutStorage ==
    /\ task["w1"].pc = "done"
    /\ Len(task["w1"].file.rows) \in 1..(batch_size - 1)
    /\ Len(task["w1"].errors) = Len(task["w1"].file.rows)
    /\ \A i \in DOMAIN task["w1"].file.rows : task["w1"].file.rows[i].ok
    /\ task["w1"].inserted = 0
    /\ jobs["w1"].status = "completed"

\* C30: an ingest never modifies or deletes an existing Transaction row.
\* Every row stored before a step of the ingest is stored after it with all
\* its field values, the import_batch_id and the source row number of the
\* ingest that first inserted it included; a step of the ingest only adds
\* rows whose key was not stored.
IngestKeepsStoredRows ==
    [][/\ ledger \subseteq ledger'
       /\ \A t \in ledger' \ ledger : ~Conflicts(ledger, t)]_vars

\* The ingest has offered rows under a key the earlier import had stored,
\* in a batch and in a per-row retry, and inserted rows under another key.
OfferedOverStoredRow ==
    /\ EarlierRow \in ledger
    /\ task["w1"].pc = "done"
    /\ task["w1"].duplicate_skipped >= 2
    /\ task["w1"].inserted = 1
    /\ \E i \in DOMAIN hist["w1"].batch_log : hist["w1"].batch_log[i] = 0
    /\ \E i \in DOMAIN hist["w1"].batch_log : hist["w1"].batch_log[i] = -1

(***************************************************************************)
(* Item spikes and crashes.  detect_item_anomalies reads the item names of *)
(* the ledger rows of the current and the prior 7-day window and counts,   *)
(* per item, the rows.  A window of an item is modelled by the sequence of *)
(* the Quantity values of its rows.                                        *)
(***************************************************************************)
NoItemAlert == [type |-> "none", severity |-> "none"]

\* Lines 228-250: current_counts and prior_counts add 1 per row.
RowCount(window) == Len(window)

\* Lines 205-211 and 252-310 for one item: the create_alert call, if any.
detect_item_anomalies(latest_date, current, prior, spike_threshold, crash_threshold) ==
    LET current_qty == RowCount(current)
        prior_qty == RowCount(prior)
    IN  IF ~latest_date THEN NoItemAlert
        ELSE IF current_qty = 0 /\ prior_qty = 0 THEN NoItemAlert
        ELSE IF prior_qty < 3 THEN NoItemAlert
        ELSE LET change_pct ==
                     FMul(FDiv(FInt(current_qty - prior_qty), FInt(prior_qty)),
                          FInt(100))
             IN  IF FLessEq(FInt(spike_threshold), change_pct)
                 THEN [type |-> "item_spike", severity |-> "info"]
                 ELSE IF FLessEq(change_pct, FInt(-crash_threshold))
                 THEN [type |-> "item_crash", severity |-> "warning"]
                 ELSE NoItemAlert

\* The rows of one item in a window: up to four rows of one or three units.
ItemWindows == SeqsUpTo({1, 3}, 4)

\* item_spike_pct and item_crash_pct: the default and a tenant's setting.
ItemThresholds == {50, 25}

InitItems ==
    /\ Quiet
    /\ \E l \in BOOLEAN, c \in ItemWindows, p \in ItemWindows,
          s \in ItemThresholds, d \in ItemThresholds :
         calc = [op |-> "items", latest_date |-> l, current |-> c, prior |-> p,
                 item_spike_pct |-> s, item_crash_pct |-> d,
                 returned |-> FALSE, alert |-> NoItemAlert]

DetectItemAnomalies ==
    /\ calc.op = "items"
    /\ ~calc.returned
    /\ calc' = [calc EXCEPT !.returned = TRUE,
                            !.alert = detect_item_anomalies(
                                          calc.latest_date, calc.current, calc.prior,
                                          calc.item_spike_pct, calc.item_crash_pct)]
    /\ UNCHANGED <<ledger, jobs, task, scan, scanjobs, alerts, anomalies, now, hist>>

NextItems == DetectItemAnomalies

SpecItems == InitItems /\ [][NextItems]_vars

\* The quantity sold in a window: the sum of the Quantity values of its rows.
QuantitySold(window) == SumSeq(window)

\* The percentage change of the quantity sold is >= pct, or <= -pct, in
\* exact arithmetic, for a positive prior quantity.
QuantityUpBy(pct) ==
    (QuantitySold(calc.current) - QuantitySold(calc.prior)) * 100
        >= pct * QuantitySold(calc.prior)

QuantityDownBy(pct) ==
    (QuantitySold(calc.current) - QuantitySold(calc.prior)) * 100
        <= -pct * QuantitySold(calc.prior)

\* C24: for an item sold in the current or the prior 7-day window,
\* detect_item_anomalies compares the quantity sold in the two windows: it
\* attempts item_spike (info) iff the prior window has at least 3 sales and
\* the percentage change is >= item_spike_pct, item_crash (warning) iff the
\* prior window has at least 3 sales and the percentage change is
\* <= -item_crash_pct, nothing for an item with fewer than 3 prior sales,
\* and never both.  The sales of the prior window are counted here as the
\* code counts them, one per row; the change is that of the quantity sold.
ItemAlertIffQuantityChange ==
    (calc.op = "items" /\ calc.returned /\ calc.latest_date) =>
        LET enough == RowCount(calc.prior) >= 3
        IN  /\ calc.alert.type = "item_spike" <=>
                   (enough /\ QuantityUpBy(calc.item_spike_pct))
            /\ calc.alert.type = "item_crash" <=>
                   (enough /\ QuantityDownBy(calc.item_crash_pct))
            /\ calc.alert.type = "item_spike" => calc.alert.severity = "info"
            /\ calc.alert.type = "item_crash" => calc.alert.severity = "warning"

(***************************************************************************)
(* Quadrant changes.  The ledger is modelled by the aggregate             *)
(* get_quadrant_for_period builds per month and item: the number of rows   *)
(* and the average price, or no sales.  Quantities and prices are carried  *)
(* doubled, so that the median of an even number of values, the mean of    *)
(* the two middle ones, stays an integer.                                  *)
(***************************************************************************)
NoSales == [quantity |-> 0, avg_price |-> 0]

ItemSales == {NoSales} \cup [quantity : 1..2, avg_price : 1..2]

\* The calendar months that may hold rows.
QuadrantMonths == {<<2024, 12>>, <<2025, 1>>, <<2025, 2>>}

NoDate == <<0, 0>>

MonthIndex(ym) == 12 * ym[1] + ym[2] - 1

Sold(data, ym) == {i \in Items : data[ym][i].quantity > 0}

\* get_latest_transaction_date: the month of the latest row, if any.
get_latest_transaction_date(data) ==
    LET months == {ym \in DOMAIN data : Sold(data, ym) # {}}
    IN  IF months = {} THEN NoDate
        ELSE CHOOSE ym \in months :
                 \A other \in months : MonthIndex(other) <= MonthIndex(ym)

\* sorted([...]) of the values v[i], i in S.
RECURSIVE SortedValues(_, _)
SortedValues(S, v) ==
    IF S = {} THEN <<>>
    ELSE LET m == CHOOSE i \in S : \A j \in S : v[i] <= v[j]
         IN  <<v[m]>> \o SortedValues(S \ {m}, v)

\* Lines 364-368, doubled: the middle value, or the sum of the two middle ones.
DoubledMedian(s) ==
    LET mid == Len(s) \div 2
    IN  IF Len(s) % 2 = 1 THEN 2 * s[mid + 1] ELSE s[mid] + s[mid + 1]

\* get_quadrant_for_period: item -> quadrant for the items sold in the month;
\* the empty mapping for a month without rows.
get_quadrant_for_period(data, year, month) ==
    LET ym == <<year, month>>
        S == IF ym \in DOMAIN data THEN Sold(data, ym) ELSE {}
    IN  IF S = {} THEN [i \in {} |-> "none"]
        ELSE LET rows == data[ym]
                 median_qty ==
                     DoubledMedian(SortedValues(S, [i \in S |-> rows[i].quantity]))
                 median_price ==
                     DoubledMedian(SortedValues(S, [i \in S |-> rows[i].avg_price]))
             IN  [i \in S |->
                     get_quadrant_for_period_rule(
                         [quantity |-> 2 * rows[i].quantity,
                          avg_price |-> 2 * rows[i].avg_price],
                         median_qty, median_price)]

QuadrantAlert(type, item, severity) ==
    [type |-> type, item |-> item, severity |-> severity]

\* The alerts two months' quadrants give rise to (lines 421-475).
QuadrantMovements(current_quadrants, prior_quadrants) ==
    IF DOMAIN prior_quadrants = {} THEN {}
    ELSE LET known == DOMAIN current_quadrants \cap DOMAIN prior_quadrants
         IN  {QuadrantAlert("new_star", i, "info") :
                 i \in {k \in known : /\ current_quadrants[k] = "Star"
                                      /\ prior_quadrants[k] # "Star"}}
             \cup
             {QuadrantAlert("new_dog", i, "warning") :
                 i \in {k \in known : /\ current_quadrants[k] = "Dog"
                                      /\ prior_quadrants[k] # "Dog"}}

\* A prior month that stays in the current year when the month is January.
detect_quadrant_changes_same_year(enabled, data) ==
    LET latest_date == get_latest_transaction_date(data)
        current_month == latest_date[2]
        prior_month == IF current_month = 1 THEN 12 ELSE current_month - 1
    IN  IF ~enabled \/ latest_date = NoDate THEN {}
        ELSE QuadrantMovements(
                 get_quadrant_for_period(data, latest_date[1], current_month),
                 get_quadrant_for_period(data, latest_date[1], prior_month))

\* detect_quadrant_changes: the set of create_alert calls it makes.
detect_quadrant_changes(enabled, data) ==
    LET latest_date == get_latest_transaction_date(data)
        current_year == latest_date[1]
        current_month == latest_date[2]
        prior_year == IF current_month = 1 THEN current_year - 1 ELSE current_year
        prior_month == IF current_month = 1 THEN 12 ELSE current_month - 1
    IN  IF ~enabled THEN {}
        ELSE IF latest_date = NoDate THEN {}
        ELSE QuadrantMovements(
                 get_quadrant_for_period(data, current_year, current_month),
                 get_quadrant_for_period(data, prior_year, prior_month))

InitChanges ==
    /\ Quiet
    /\ \E enabled \in BOOLEAN, data \in [QuadrantMonths -> [Items -> ItemSales]] :
         calc = [op |-> "changes", quadrant_alerts_enabled |-> enabled,
                 data |-> data, returned |-> FALSE, attempts |-> {}]

DetectQuadrantChanges ==
    /\ calc.op = "changes"
    /\ ~calc.returned
    /\ calc' = [calc EXCEPT !.returned = TRUE,
                            !.attempts = detect_quadrant_changes(
                                             calc.quadrant_alerts_enabled, calc.data)]
    /\ UNCHANGED <<ledger, jobs, task, scan, scanjobs, alerts, anomalies, now, hist>>

NextChanges == DetectQuadrantChanges

SpecChanges == InitChanges /\ [][NextChanges]_vars

\* The month of the latest row and the calendar month before it.
LatestMonth == get_latest_transaction_date(calc.data)

MonthBefore(ym) ==
    CHOOSE p \in {ym[1] - 1, ym[1]} \X (1..12) : MonthIndex(p) = MonthIndex(ym) - 1

\* The quadrant of item i in month ym, "none" if it has no rows there.
QuadrantIn(ym, i) ==
    LET q == get_quadrant_for_period(calc.data, ym[1], ym[2])
    IN  IF i \in DOMAIN q THEN q[i] ELSE "none"

Entered(quadrant) ==
    {i \in Items : /\ QuadrantIn(LatestMonth, i) = quadrant
                   /\ QuadrantIn(MonthBefore(LatestMonth), i) \notin {quadrant, "none"}}

\* C25: detect_quadrant_changes attempts new_star (info) exactly for the
\* items that are Star in the calendar month of the latest transaction and
\* were in another quadrant in the calendar month before it (December of the
\* year before when the month is January), new_dog (warning) exactly for
\* the items that are Dog now and were in another quadrant before, nothing
\* for an item without rows in the month before, and nothing at all when
\* quadrant_alerts_enabled is false.
QuadrantChangeAlerts ==
    (calc.op = "changes" /\ calc.returned) =>
        calc.attempts =
            IF ~calc.quadrant_alerts_enabled \/ LatestMonth = NoDate THEN {}
            ELSE {QuadrantAlert("new_star", i, "info") : i \in Entered("Star")}
                 \cup {QuadrantAlert("new_dog", i, "warning") : i \in Entered("Dog")}

\* The latest rows are of January: one item entered Star and the other
\* entered Dog, coming from their quadrants of December.
StarAndDogEnteredInJanuary ==
    /\ calc.op = "changes"
    /\ calc.returned
    /\ LatestMonth = <<2025, 1>>
    /\ calc.attempts = {QuadrantAlert("new_star", "Latte", "info"),
                        QuadrantAlert("new_dog", "Mocha", "warning")}

(***************************************************************************)
(* Scenario SpecCsv: the pre-pass of process_csv over a parsed file and    *)
(* the transformation of its item rows.  A row of the file has an Item     *)
(* cell (missing, or a text given as a sequence of characters), a receipt  *)
(* number, and SubTotal and Service Charge cells in cents.                 *)
(***************************************************************************)
Missing == [na |-> TRUE, text |-> <<>>]
Text(s) == [na |-> FALSE, text |-> s]

CsvRow(item, receipt, subtotal_cents, service_charge_cents) ==
    [item |-> item, receipt_number |-> receipt, subtotal |-> subtotal_cents,
     tax |-> 0, discount |-> 0, service_charge |-> service_charge_cents]

LatteText == <<"L", "a", "t", "t", "e">>
MochaText == <<"M", "o", "c", "h", "a">>
ServiceChargeText ==
    <<"S", "e", "r", "v", "i", "c", "e", " ", "C", "h", "a", "r", "g", "e">>
PaymentText == <<"P", "a", "y", "m", "e", "n", "t", ":">>
CashText == <<" ", "C", "a", "s", "h">>

\* str.lower on the letters that occur in the files.
LowerChar(c) ==
    CASE c = "A" -> "a" [] c = "C" -> "c" [] c = "E" -> "e" [] c = "G" -> "g"
      [] c = "H" -> "h" [] c = "I" -> "i" [] c = "L" -> "l" [] c = "M" -> "m"
      [] c = "N" -> "n" [] c = "P" -> "p" [] c = "R" -> "r" [] c = "S" -> "s"
      [] c = "T" -> "t" [] c = "V" -> "v" [] c = "Y" -> "y" [] OTHER -> c

UpperChar(c) ==
    CASE c = "a" -> "A" [] c = "c" -> "C" [] c = "e" -> "E" [] c = "g" -> "G"
      [] c = "h" -> "H" [] c = "i" -> "I" [] c = "l" -> "L" [] c = "m" -> "M"
      [] c = "n" -> "N" [] c = "p" -> "P" [] c = "r" -> "R" [] c = "s" -> "S"
      [] c = "t" -> "T" [] c = "v" -> "V" [] c = "y" -> "Y" [] OTHER -> c

Lower(s) == [i \in 1..Len(s) |-> LowerChar(s[i])]
Upper(s) == [i \in 1..Len(s) |-> UpperChar(s[i])]

\* str.strip
RECURSIVE Strip(_)
Strip(s) ==
    IF s = <<>> THEN s
    ELSE IF Head(s) = " " THEN Strip(Tail(s))
    ELSE IF s[Len(s)] = " " THEN Strip(SubSeq(s, 1, Len(s) - 1))
    ELSE s

\* sub in s
Contains(s, sub) ==
    \E i \in 0..(Len(s) - Len(sub)) : SubSeq(s, i + 1, i + Len(sub)) = sub

\* A filter whose Payment: test is case-sensitive and that lets the Service
\* Charge rows through.
IsItemRowKeepingServiceCharge(row) ==
    /\ ~row.item.na
    /\ Strip(row.item.text) # <<>>
    /\ ~Contains(row.item.text, PaymentText)

\* The mask of parse_storehub_csv (lines 166-172); str.contains is called
\* with case=False.
IsItemRow(row) ==
    /\ ~row.item.na
    /\ row.item.text # <<>>
    /\ Strip(row.item.text) # <<>>
    /\ row.item.text # ServiceChargeText
    /\ ~Contains(Lower(row.item.text), Lower(PaymentText))

\* parse_storehub_csv, as the indices of the rows it keeps, in file order.
parse_storehub_csv(df) ==
    LET Keep(i) == IsItemRow(df[i])
    IN  SelectSeq([i \in 1..Len(df) |-> i], Keep)

\* The rows among those at the indices ix whose receipt number is r.
OfReceipt(df, ix, r) ==
    LET Keep(i) == df[i].receipt_number = r
        kept == SelectSeq(ix, Keep)
    IN  [k \in 1..Len(kept) |-> df[kept[k]]]

\* service_charges of line 102: receipt -> the sum of the Service Charge
\* column over the rows whose Item is 'Service Charge'.
service_charges(df) ==
    LET Keep(i) == ~df[i].item.na /\ df[i].item.text = ServiceChargeText
        ix == SelectSeq([i \in 1..Len(df) |-> i], Keep)
    IN  [r \in {df[ix[k]].receipt_number : k \in 1..Len(ix)} |->
            LET rows == OfReceipt(df, ix, r)
            IN  FSum([k \in 1..Len(rows) |->
                         extract_service_charge_by_receipt(rows[k].service_charge)])]

\* receipt_subtotals of line 103: receipt -> the sum of SubTotal over the
\* item rows of the receipt, in file order.
receipt_subtotals(df) ==
    LET ix == parse_storehub_csv(df)
    IN  [r \in {df[ix[k]].receipt_number : k \in 1..Len(ix)} |->
            calculate_receipt_subtotals(OfReceipt(df, ix, r))]

\* dict.get(key, default)
DictGet(d, key, default) == IF key \in DOMAIN d THEN d[key] ELSE default

\* Line 138 for the row at index i of the file, with the tables given; of
\* the result, the fields the properties read.
TransformWithTables(df, i, sc_table, subtotal_table) ==
    LET row == df[i]
        trans == transform_storehub_row(
                     row,
                     DictGet(sc_table, row.receipt_number, FZero),
                     DictGet(subtotal_table, row.receipt_number, safe_float(row.subtotal)))
    IN  [row_index |-> i, subtotal |-> trans.subtotal,
         allocated_service_charge |-> trans.allocated_service_charge]

\* Files of one receipt whose rows may stand in any order: item rows of 0.01
\* and 0.04 and a Service Charge row of 0.03.
PositionRows ==
    {CsvRow(Text(LatteText), 1, 1, 0), CsvRow(Text(LatteText), 1, 4, 0),
     CsvRow(Text(ServiceChargeText), 1, 0, 3)}

PositionFiles == SeqsUpTo(PositionRows, 4)

\* The file of two item rows of 180.00 and 220.00 and a Service Charge row
\* of 40.00, and the rows that may stand among them: cells that are not
\* items, an item of another receipt, and texts close to the excluded ones.
ExampleFile ==
    <<CsvRow(Text(LatteText), 1, 18000, 0),
      CsvRow(Text(MochaText), 1, 22000, 0),
      CsvRow(Text(ServiceChargeText), 1, 0, 4000)>>

OddItems ==
    {Missing, Text(<<>>), Text(<<" ", " ">>),
     Text(Lower(ServiceChargeText)),
     Text(<<" ">> \o ServiceChargeText),
     Text(PaymentText \o CashText),
     Text(Upper(PaymentText \o CashText)),
     Text(LatteText \o <<" ">> \o Lower(PaymentText))}

OddRows ==
    {CsvRow(item, 1, 40000, 0) : item \in OddItems}
        \cup {CsvRow(Text(LatteText), 2, 40000, 0)}

InsertAt(s, k, x) == SubSeq(s, 1, k) \o <<x>> \o SubSeq(s, k + 1, Len(s))

FilterFiles ==
    {ExampleFile} \cup {InsertAt(ExampleFile, k, x) : k \in 0..Len(ExampleFile), x \in OddRows}

InitCsv ==
    /\ Quiet
    /\ \E df \in PositionFiles \cup FilterFiles :
         calc = [op |-> "csv", df |-> df, prepass |-> FALSE,
                 service_charges |-> <<>>, receipt_subtotals |-> <<>>,
                 items |-> <<>>, out |-> <<>>]

\* Lines 101-106: the tables and the item rows, from the whole file.
Prepass ==
    /\ calc.op = "csv"
    /\ ~calc.prepass
    /\ calc' = [calc EXCEPT !.prepass = TRUE,
                            !.service_charges = service_charges(calc.df),
                            !.receipt_subtotals = receipt_subtotals(calc.df),
                            !.items = parse_storehub_csv(calc.df)]
    /\ UNCHANGED <<ledger, jobs, task, scan, scanjobs, alerts, anomalies, now, hist>>

\* Lines 136-143: the next item row is transformed with the tables.
TransformItemRow ==
    /\ calc.op = "csv"
    /\ calc.prepass
    /\ Len(calc.out) < Len(calc.items)
    /\ calc' = [calc EXCEPT !.out =
                   Append(@, TransformWithTables(calc.df, calc.items[Len(calc.out) + 1],
                                                 calc.service_charges,
                                                 calc.receipt_subtotals))]
    /\ UNCHANGED <<ledger, jobs, task, scan, scanjobs, alerts, anomalies, now, hist>>

NextCsv == Prepass \/ TransformItemRow

SpecCsv == InitCsv /\ [][NextCsv]_vars

CsvDone == calc.op = "csv" /\ calc.prepass /\ Len(calc.out) = Len(calc.items)

\* The rows of the file in an order that depends on their contents only:
\* by Item text length, receipt, SubTotal and Service Charge cells.
RowRank(row) ==
    <<Len(row.item.text), row.receipt_number, row.subtotal, row.service_charge>>

\* a <= b in the lexicographic order of tuples of equal length.
RECURSIVE LexLeq(_, _)
LexLeq(a, b) ==
    \/ a = <<>>
    \/ Head(a) < Head(b)
    \/ Head(a) = Head(b) /\ LexLeq(Tail(a), Tail(b))

RECURSIVE SortedRows(_, _)
SortedRows(df, S) ==
    IF S = {} THEN <<>>
    ELSE LET m == CHOOSE i \in S : \A j \in S : LexLeq(RowRank(df[i]), RowRank(df[j]))
         IN  <<df[m]>> \o SortedRows(df, S \ {m})

Rearranged(df) == SortedRows(df, DOMAIN df)

\* The allocated service charge the row gets when the rows of its file
\* stand in the order of Rearranged.
AllocatedAfterRearranging(df, row) ==
    LET other == Rearranged(df)
        at == CHOOSE i \in DOMAIN other : other[i] = row
    IN  TransformWithTables(other, at, service_charges(other),
                            receipt_subtotals(other)).allocated_service_charge

\* C26: the per-receipt subtotal and service-charge tables are computed
\* from the whole file before any item row is transformed, so the allocated
\* service charge of an item row is the same for every position of the row
\* relative to its receipt's Service Charge row and its sibling item rows:
\* it is the one the row gets in the rearranged file.
AllocationIgnoresRowOrder ==
    (calc.op = "csv" /\ calc.prepass) =>
        \A k \in DOMAIN calc.out :
            calc.out[k].allocated_service_charge =
                AllocatedAfterRearranging(calc.df, calc.df[calc.out[k].row_index])

\* The text s contains sub, letter case apart.
ContainsIgnoringCase(s, sub) ==
    \E i \in 0..(Len(s) - Len(sub)) :
        \A k \in 1..Len(sub) : s[i + k] \in {LowerChar(sub[k]), UpperChar(sub[k])}

\* The rows a sentence names as item rows: Item present and non-blank, not
\* 'Service Charge', and without 'Payment:' as the test given finds it.
NamedItemRow(row, HasPayment(_)) ==
    /\ ~row.item.na
    /\ \E i \in DOMAIN row.item.text : row.item.text[i] # " "
    /\ row.item.text # ServiceChargeText
    /\ ~HasPayment(row.item.text)

\* The file's rows named as item rows are exactly the rows transformed, in
\* file order, and each gets the share of its receipt's service charge that
\* its SubTotal has in the sum of the SubTotals of the named rows of the
\* receipt; the example file yields two rows, with 18.00 and 22.00.
TransformsNamedRows(HasPayment(_)) ==
    LET df == calc.df
        Named(i) == NamedItemRow(df[i], HasPayment)
        named == SelectSeq([i \in 1..Len(df) |-> i], Named)
        Share(i) ==
            LET siblings == OfReceipt(df, named, df[i].receipt_number)
            IN  safe_int_cents(allocate_service_charge(
                    safe_float(df[i].subtotal),
                    FSum([k \in 1..Len(siblings) |-> safe_float(siblings[k].subtotal)]),
                    DictGet(calc.service_charges, df[i].receipt_number, FZero)))
    IN  /\ [k \in 1..Len(calc.out) |-> calc.out[k].row_index] = named
        /\ \A k \in DOMAIN calc.out :
               calc.out[k].allocated_service_charge = Share(calc.out[k].row_index)
        /\ df = ExampleFile =>
               [k \in 1..Len(calc.out) |-> calc.out[k].allocated_service_charge]
                   = <<1800, 2200>>

HasPaymentAsWritten(s) == Contains(s, PaymentText)
HasPaymentInAnyCase(s) == ContainsIgnoringCase(s, PaymentText)

====
